---- MODULE Spec2Model ----
(***************************************************************************)
(* Model of the dVRK community-publications front end: the accent decoder  *)
(* (CONFIG.convertLatexToUnicode and the analytics copy), the verbatim     *)
(* entry extractor (extractBibtexEntries), the load pipeline               *)
(* (loadPublications) and the subset download (downloadBibtex).            *)
(*                                                                         *)
(* A text is a sequence of one-character strings.  Regular expressions are *)
(* modelled by what the JavaScript engine does with them: a global replace *)
(* scans left to right, takes the first match at the leftmost position     *)
(* (alternatives in written order, greedy quantifiers) and resumes after   *)
(* the match.                                                              *)
(***************************************************************************)
EXTENDS Integers, Sequences, FiniteSets, TLC

VARIABLES
    text,               \* decoder input (argument of convertLatexToUnicode)
    decoded,            \* result of CONFIG.convertLatexToUnicode(text)
    redecoded,          \* result of a second application on decoded
    analyticsDecoded,   \* result of the analytics copy on text
    doc,                \* the text of publications.bib
    urlParams,          \* the query parameters of the page URL
    page,               \* the page opened: "list" or "analytics"
    pc,                 \* its component: "created", "fetching" or "loaded"
    publications,       \* data(): the loaded publication records
    bibtexEntries,      \* the key -> source text table built during the load
    searchQuery,        \* data(): the filters
    startYear,
    endYear,
    selectedType,
    selectedField,
    selectedDataType,
    selectedSite,
    currentPage,        \* data(): the page shown
    download,           \* the file produced by the last downloadBibtex
    consoleErrors,      \* number of errors the load reported to the console
    loading,            \* analytics data(): the loading flag
    chartsScheduled,    \* analytics: number of createCharts callbacks given to $nextTick
    codePieces,         \* the pieces a code-list value was written with
    parsedFields,       \* result of parseFields on that value
    parsedDataTypes,    \* result of parseDataTypes on that value
    parsedSites         \* result of parseSites on that value

decodeVars == <<text, decoded, redecoded, analyticsDecoded>>
filterVars == <<searchQuery, startYear, endYear, selectedType, selectedField,
                selectedDataType, selectedSite>>
appVars == <<doc, urlParams, page, pc, publications, bibtexEntries, filterVars,
             currentPage, download, consoleErrors, loading, chartsScheduled>>
codeVars == <<codePieces, parsedFields, parsedDataTypes, parsedSites>>
vars == <<decodeVars, appVars, codeVars>>

(***************************************************************************)
(* Texts                                                                   *)
(***************************************************************************)
\* The characters of a string literal, one per element.
Chars(s) == [i \in 1..Len(s) |-> SubSeq(s, i, i)]

\* s[i], or the empty string past the end (no character equals it).
At(s, i) == IF i >= 1 /\ i <= Len(s) THEN s[i] ELSE ""

\* Does text s carry the text p at position i?
StartsWithAt(s, p, i) ==
    /\ i + Len(p) - 1 <= Len(s)
    /\ \A k \in 1..Len(p) : s[i + k - 1] = p[k]

\* The least element of a non-empty set of integers.
Min(S) == CHOOSE x \in S : \A y \in S : x <= y

\* A result slot: not yet computed, or computed with a value.
NotRun == [run |-> FALSE, value |-> <<>>]
Ran(v) == [run |-> TRUE, value |-> v]

(***************************************************************************)
(* Character classes of the regular expressions                            *)
(***************************************************************************)
LowerLetters == {"a","b","c","d","e","f","g","h","i","j","k","l","m",
                 "n","o","p","q","r","s","t","u","v","w","x","y","z"}
UpperLetters == {"A","B","C","D","E","F","G","H","I","J","K","L","M",
                 "N","O","P","Q","R","S","T","U","V","W","X","Y","Z"}
\* the class a-zA-Z
Letters == LowerLetters \cup UpperLetters
\* The grave accent (backquote) character; a TLA+ string cannot hold it, so
\* the one-element text <<Grave>> stands for it.
Grave == "grave"
\* the accent class: acute, grave, circumflex, umlaut, tilde
Accents == {"'", Grave, "^", "\"", "~"}
\* the whitespace class
Whitespace == {" ", "\n", "\t", "\r"}
\* the command names, in the order the alternation tries them
Commands == <<"c", "aa", "AA", "o", "O", "ae", "AE", "oe", "OE", "ss", "l", "L">>

(***************************************************************************)
(* CONFIG.convertLatexToUnicode                                            *)
(***************************************************************************)
\* The entries of latexMap as (key, character) pairs; a decoded character is
\* named by its code point ("U+00E9" is e with acute accent) and is one
\* element of a text.  The umlaut keys are
\* written '\\"a' in the source: three characters, backslash, quote, letter.
latexPairs ==
    { <<"'a", "U+00E1">>, <<"'e", "U+00E9">>, <<"'i", "U+00ED">>, <<"'o", "U+00F3">>, <<"'u", "U+00FA">>,
      <<"'A", "U+00C1">>, <<"'E", "U+00C9">>, <<"'I", "U+00CD">>, <<"'O", "U+00D3">>, <<"'U", "U+00DA">>,
      <<"'y", "U+00FD">>, <<"'Y", "U+00DD">>, <<"'c", "U+0107">>, <<"'C", "U+0106">>,
      <<"'n", "U+0144">>, <<"'N", "U+0143">>, <<"'s", "U+015B">>, <<"'S", "U+015A">>,
      <<"'z", "U+017A">>, <<"'Z", "U+0179">>,
      <<Grave \o "a", "U+00E0">>, <<Grave \o "e", "U+00E8">>, <<Grave \o "i", "U+00EC">>,
      <<Grave \o "o", "U+00F2">>, <<Grave \o "u", "U+00F9">>,
      <<Grave \o "A", "U+00C0">>, <<Grave \o "E", "U+00C8">>, <<Grave \o "I", "U+00CC">>,
      <<Grave \o "O", "U+00D2">>, <<Grave \o "U", "U+00D9">>,
      <<"^a", "U+00E2">>, <<"^e", "U+00EA">>, <<"^i", "U+00EE">>, <<"^o", "U+00F4">>, <<"^u", "U+00FB">>,
      <<"^A", "U+00C2">>, <<"^E", "U+00CA">>, <<"^I", "U+00CE">>, <<"^O", "U+00D4">>, <<"^U", "U+00DB">>,
      <<"\\\"a", "U+00E4">>, <<"\\\"e", "U+00EB">>, <<"\\\"i", "U+00EF">>, <<"\\\"o", "U+00F6">>,
      <<"\\\"u", "U+00FC">>,
      <<"\\\"A", "U+00C4">>, <<"\\\"E", "U+00CB">>, <<"\\\"I", "U+00CF">>, <<"\\\"O", "U+00D6">>,
      <<"\\\"U", "U+00DC">>,
      <<"\\\"y", "U+00FF">>, <<"\\\"Y", "U+0178">>,
      <<"~a", "U+00E3">>, <<"~n", "U+00F1">>, <<"~o", "U+00F5">>,
      <<"~A", "U+00C3">>, <<"~N", "U+00D1">>, <<"~O", "U+00D5">>,
      <<"c{c}", "U+00E7">>, <<"c{C}", "U+00C7">>, <<"c c", "U+00E7">>, <<"c C", "U+00C7">>,
      <<"aa", "U+00E5">>, <<"AA", "U+00C5">>,
      <<"o", "U+00F8">>, <<"O", "U+00D8">>,
      <<"ae", "U+00E6">>, <<"AE", "U+00C6">>, <<"oe", "U+0153">>, <<"OE", "U+0152">>,
      <<"ss", "U+00DF">>,
      <<"l", "U+0142">>, <<"L", "U+0141">> }

latexMap ==
    [k \in {p[1] : p \in latexPairs} |->
        (CHOOSE p \in latexPairs : p[1] = k)[2]]

\* The table of the list view's own copy of the decoder: the umlaut keys are
\* written '\"a' there, two characters, quote and letter.
listUmlautPairs ==
    { <<"\"a", "U+00E4">>, <<"\"e", "U+00EB">>, <<"\"i", "U+00EF">>, <<"\"o", "U+00F6">>,
      <<"\"u", "U+00FC">>,
      <<"\"A", "U+00C4">>, <<"\"E", "U+00CB">>, <<"\"I", "U+00CF">>, <<"\"O", "U+00D6">>,
      <<"\"U", "U+00DC">>,
      <<"\"y", "U+00FF">>, <<"\"Y", "U+0178">> }

listLatexPairs ==
    { p \in latexPairs : \A u \in listUmlautPairs : u[2] # p[2] } \cup listUmlautPairs

listLatexMap ==
    [k \in {p[1] : p \in listLatexPairs} |->
        (CHOOSE p \in listLatexPairs : p[1] = k)[2]]

\* latexMap[key] || match
Lookup(map, key, match) == IF key \in DOMAIN map THEN <<map[key]>> ELSE match

\* First replace: /\{\\(['`^"~])(\{([a-zA-Z])\}|([a-zA-Z]))\}/g
\* Length of the match at position i (0: no match) and the letter captured.
DoubleWrappedMatch(s, i) ==
    IF At(s, i) = "{" /\ At(s, i + 1) = "\\" /\ At(s, i + 2) \in Accents
    THEN IF /\ At(s, i + 3) = "{" /\ At(s, i + 4) \in Letters
            /\ At(s, i + 5) = "}" /\ At(s, i + 6) = "}"
         THEN [len |-> 7, letter |-> At(s, i + 4)]
         ELSE IF At(s, i + 3) \in Letters /\ At(s, i + 4) = "}"
              THEN [len |-> 5, letter |-> At(s, i + 3)]
              ELSE [len |-> 0, letter |-> ""]
    ELSE [len |-> 0, letter |-> ""]

RECURSIVE ReplaceDoubleWrapped(_, _, _)
ReplaceDoubleWrapped(map, s, i) ==
    IF i > Len(s) THEN <<>>
    ELSE LET m == DoubleWrappedMatch(s, i) IN
         IF m.len > 0
         THEN Lookup(map, At(s, i + 2) \o m.letter, SubSeq(s, i, i + m.len - 1))
                  \o ReplaceDoubleWrapped(map, s, i + m.len)
         ELSE <<s[i]>> \o ReplaceDoubleWrapped(map, s, i + 1)

\* Second replace: /\\(['`^"~])\{?([a-zA-Z])\}?/g
\* The optional opening brace and the optional closing brace are independent:
\* a closing brace after the letter is taken whether or not one was opened.
AccentMatch(s, i) ==
    IF At(s, i) = "\\" /\ At(s, i + 1) \in Accents
    THEN LET j == IF At(s, i + 2) = "{" /\ At(s, i + 3) \in Letters
                  THEN i + 3 ELSE i + 2
         IN  IF At(s, j) \in Letters
             THEN [len |-> (j - i + 1) + (IF At(s, j + 1) = "}" THEN 1 ELSE 0),
                   letter |-> At(s, j)]
             ELSE [len |-> 0, letter |-> ""]
    ELSE [len |-> 0, letter |-> ""]

RECURSIVE ReplaceAccent(_, _, _)
ReplaceAccent(map, s, i) ==
    IF i > Len(s) THEN <<>>
    ELSE LET m == AccentMatch(s, i) IN
         IF m.len > 0
         THEN Lookup(map, At(s, i + 1) \o m.letter, SubSeq(s, i, i + m.len - 1))
                  \o ReplaceAccent(map, s, i + m.len)
         ELSE <<s[i]>> \o ReplaceAccent(map, s, i + 1)

\* Third replace:
\* /\\(c|aa|AA|o|O|ae|AE|oe|OE|ss|l|L)(\{([a-zA-Z])\}|\s([a-zA-Z])|(?![a-zA-Z]))/g
\* The argument group after a command name ending before position j:
\* a braced letter, a whitespace character and a letter, or nothing when no
\* letter follows.  len = -1: the group does not match.
CommandArgument(s, j) ==
    IF At(s, j) = "{" /\ At(s, j + 1) \in Letters /\ At(s, j + 2) = "}"
    THEN [len |-> 3, letter |-> At(s, j + 1)]
    ELSE IF At(s, j) \in Whitespace /\ At(s, j + 1) \in Letters
         THEN [len |-> 2, letter |-> At(s, j + 1)]
         ELSE IF At(s, j) \notin Letters
              THEN [len |-> 0, letter |-> ""]
              ELSE [len |-> -1, letter |-> ""]

\* The command names that match at i, with their argument group.
CommandCandidates(s, i) ==
    { n \in 1..Len(Commands) :
        /\ StartsWithAt(s, Chars(Commands[n]), i + 1)
        /\ CommandArgument(s, i + 1 + Len(Commands[n])).len >= 0 }

CommandMatch(s, i) ==
    IF At(s, i) = "\\" /\ CommandCandidates(s, i) # {}
    THEN LET n   == CHOOSE c \in CommandCandidates(s, i) :
                        \A d \in CommandCandidates(s, i) : c <= d
             arg == CommandArgument(s, i + 1 + Len(Commands[n]))
         IN  [len |-> 1 + Len(Commands[n]) + arg.len,
              cmd |-> Commands[n], letter |-> arg.letter]
    ELSE [len |-> 0, cmd |-> "", letter |-> ""]

CommandReplacement(map, m, match) ==
    IF m.letter # ""
    THEN IF (m.cmd \o "{" \o m.letter \o "}") \in DOMAIN map
         THEN <<map[m.cmd \o "{" \o m.letter \o "}"]>>
         ELSE Lookup(map, m.cmd \o " " \o m.letter, match)
    ELSE Lookup(map, m.cmd, match)

RECURSIVE ReplaceCommand(_, _, _)
ReplaceCommand(map, s, i) ==
    IF i > Len(s) THEN <<>>
    ELSE LET m == CommandMatch(s, i) IN
         IF m.len > 0
         THEN CommandReplacement(map, m, SubSeq(s, i, i + m.len - 1))
                  \o ReplaceCommand(map, s, i + m.len)
         ELSE <<s[i]>> \o ReplaceCommand(map, s, i + 1)

\* Fourth replace: /\{([^\\\}]+)\}/g with '$1'
\* Length of the longest run from j of characters that are neither a
\* backslash nor a closing brace (an opening brace belongs to the run).
PlainRun(s, j) ==
    Min({ k \in j..(Len(s) + 1) : At(s, k) \in {"", "\\", "}"} }) - j

\* The run must be non-empty and be followed by a closing brace; a shorter
\* run is followed by a run character, so backtracking finds nothing more.
BraceGroupMatch(s, i) ==
    IF At(s, i) = "{" /\ PlainRun(s, i + 1) >= 1
                      /\ At(s, i + 1 + PlainRun(s, i + 1)) = "}"
    THEN PlainRun(s, i + 1) + 2
    ELSE 0

RECURSIVE RemoveBraces(_, _)
RemoveBraces(s, i) ==
    IF i > Len(s) THEN <<>>
    ELSE LET n == BraceGroupMatch(s, i) IN
         IF n > 0
         THEN SubSeq(s, i + 1, i + n - 2) \o RemoveBraces(s, i + n)
         ELSE <<s[i]>> \o RemoveBraces(s, i + 1)

\* The four replaces in the order of the source, with a given table.
ConvertWith(map, t) ==
    IF t = <<>> THEN <<>>
    ELSE RemoveBraces(
            ReplaceCommand(map,
                ReplaceAccent(map,
                    ReplaceDoubleWrapped(map, t, 1), 1), 1), 1)

convertLatexToUnicode(t) == ConvertWith(latexMap, t)

\* The list view's own copy: the same four replaces with its table.
listConvertLatexToUnicode(t) == ConvertWith(listLatexMap, t)

(***************************************************************************)
(* The analytics copy of convertLatexToUnicode (analytics.js).  Its table  *)
(* is the same text as CONFIG's; its regular expressions carry doubled     *)
(* backslashes, so each brace of a pattern must be preceded by a literal   *)
(* backslash in the input and each escape is introduced by two.            *)
(***************************************************************************)
analyticsLatexMap == latexMap

\* /\\{\\\\(['`^"~])(\\{([a-zA-Z])\\}|([a-zA-Z]))\\}/g
AnalyticsDoubleWrappedMatch(s, i) ==
    IF /\ At(s, i) = "\\" /\ At(s, i + 1) = "{"
       /\ At(s, i + 2) = "\\" /\ At(s, i + 3) = "\\"
       /\ At(s, i + 4) \in Accents
    THEN IF /\ At(s, i + 5) = "\\" /\ At(s, i + 6) = "{"
            /\ At(s, i + 7) \in Letters
            /\ At(s, i + 8) = "\\" /\ At(s, i + 9) = "}"
            /\ At(s, i + 10) = "\\" /\ At(s, i + 11) = "}"
         THEN [len |-> 12, letter |-> At(s, i + 7)]
         ELSE IF /\ At(s, i + 5) \in Letters
                 /\ At(s, i + 6) = "\\" /\ At(s, i + 7) = "}"
              THEN [len |-> 8, letter |-> At(s, i + 5)]
              ELSE [len |-> 0, letter |-> ""]
    ELSE [len |-> 0, letter |-> ""]

RECURSIVE AnalyticsReplaceDoubleWrapped(_, _, _)
AnalyticsReplaceDoubleWrapped(map, s, i) ==
    IF i > Len(s) THEN <<>>
    ELSE LET m == AnalyticsDoubleWrappedMatch(s, i) IN
         IF m.len > 0
         THEN Lookup(map, At(s, i + 4) \o m.letter, SubSeq(s, i, i + m.len - 1))
                  \o AnalyticsReplaceDoubleWrapped(map, s, i + m.len)
         ELSE <<s[i]>> \o AnalyticsReplaceDoubleWrapped(map, s, i + 1)

\* /\\\\(['`^"~])\\{?([a-zA-Z])\\}?/g
AnalyticsAccentMatch(s, i) ==
    IF /\ At(s, i) = "\\" /\ At(s, i + 1) = "\\"
       /\ At(s, i + 2) \in Accents /\ At(s, i + 3) = "\\"
    THEN LET j == IF /\ At(s, i + 4) = "{" /\ At(s, i + 5) \in Letters
                     /\ At(s, i + 6) = "\\"
                  THEN i + 5 ELSE i + 4
         IN  IF At(s, j) \in Letters /\ At(s, j + 1) = "\\"
             THEN [len |-> (j - i + 2) + (IF At(s, j + 2) = "}" THEN 1 ELSE 0),
                   letter |-> At(s, j)]
             ELSE [len |-> 0, letter |-> ""]
    ELSE [len |-> 0, letter |-> ""]

RECURSIVE AnalyticsReplaceAccent(_, _, _)
AnalyticsReplaceAccent(map, s, i) ==
    IF i > Len(s) THEN <<>>
    ELSE LET m == AnalyticsAccentMatch(s, i) IN
         IF m.len > 0
         THEN Lookup(map, At(s, i + 2) \o m.letter, SubSeq(s, i, i + m.len - 1))
                  \o AnalyticsReplaceAccent(map, s, i + m.len)
         ELSE <<s[i]>> \o AnalyticsReplaceAccent(map, s, i + 1)

\* /\\\\(c|aa|AA|o|O|ae|AE|oe|OE|ss|l|L)(\\{([a-zA-Z])\\}|\\s([a-zA-Z])|(?![a-zA-Z]))/g
\* The whitespace alternative has become a backslash and the letter s.
AnalyticsCommandArgument(s, j) ==
    IF /\ At(s, j) = "\\" /\ At(s, j + 1) = "{" /\ At(s, j + 2) \in Letters
       /\ At(s, j + 3) = "\\" /\ At(s, j + 4) = "}"
    THEN [len |-> 5, letter |-> At(s, j + 2)]
    ELSE IF At(s, j) = "\\" /\ At(s, j + 1) = "s" /\ At(s, j + 2) \in Letters
         THEN [len |-> 3, letter |-> At(s, j + 2)]
         ELSE IF At(s, j) \notin Letters
              THEN [len |-> 0, letter |-> ""]
              ELSE [len |-> -1, letter |-> ""]

AnalyticsCommandCandidates(s, i) ==
    { n \in 1..Len(Commands) :
        /\ StartsWithAt(s, Chars(Commands[n]), i + 2)
        /\ AnalyticsCommandArgument(s, i + 2 + Len(Commands[n])).len >= 0 }

AnalyticsCommandMatch(s, i) ==
    IF /\ At(s, i) = "\\" /\ At(s, i + 1) = "\\"
       /\ AnalyticsCommandCandidates(s, i) # {}
    THEN LET n   == CHOOSE c \in AnalyticsCommandCandidates(s, i) :
                        \A d \in AnalyticsCommandCandidates(s, i) : c <= d
             arg == AnalyticsCommandArgument(s, i + 2 + Len(Commands[n]))
         IN  [len |-> 2 + Len(Commands[n]) + arg.len,
              cmd |-> Commands[n], letter |-> arg.letter]
    ELSE [len |-> 0, cmd |-> "", letter |-> ""]

RECURSIVE AnalyticsReplaceCommand(_, _, _)
AnalyticsReplaceCommand(map, s, i) ==
    IF i > Len(s) THEN <<>>
    ELSE LET m == AnalyticsCommandMatch(s, i) IN
         IF m.len > 0
         THEN CommandReplacement(map, m, SubSeq(s, i, i + m.len - 1))
                  \o AnalyticsReplaceCommand(map, s, i + m.len)
         ELSE <<s[i]>> \o AnalyticsReplaceCommand(map, s, i + 1)

\* /\\{([^\\\\}]+)\\}/g with '$1'
AnalyticsBraceGroupMatch(s, i) ==
    IF /\ At(s, i) = "\\" /\ At(s, i + 1) = "{"
       /\ PlainRun(s, i + 2) >= 1
       /\ At(s, i + 2 + PlainRun(s, i + 2)) = "\\"
       /\ At(s, i + 3 + PlainRun(s, i + 2)) = "}"
    THEN PlainRun(s, i + 2) + 4
    ELSE 0

RECURSIVE AnalyticsRemoveBraces(_, _)
AnalyticsRemoveBraces(s, i) ==
    IF i > Len(s) THEN <<>>
    ELSE LET n == AnalyticsBraceGroupMatch(s, i) IN
         IF n > 0
         THEN SubSeq(s, i + 2, i + n - 3) \o AnalyticsRemoveBraces(s, i + n)
         ELSE <<s[i]>> \o AnalyticsRemoveBraces(s, i + 1)

analyticsConvertLatexToUnicode(t) ==
    IF t = <<>> THEN <<>>
    ELSE AnalyticsRemoveBraces(
            AnalyticsReplaceCommand(analyticsLatexMap,
                AnalyticsReplaceAccent(analyticsLatexMap,
                    AnalyticsReplaceDoubleWrapped(analyticsLatexMap, t, 1), 1), 1), 1)

(***************************************************************************)
(* More text helpers                                                       *)
(***************************************************************************)
Digits == {"0", "1", "2", "3", "4", "5", "6", "7", "8", "9"}
\* the word class of regular expressions: letters, digits and underscore
WordChars == Letters \cup Digits \cup {"_"}

\* The string spelled by a text (used as the key of a JavaScript object).
RECURSIVE Str(_)
Str(t) == IF t = <<>> THEN "" ELSE Head(t) \o Str(Tail(t))

lowerAlphabet == Chars("abcdefghijklmnopqrstuvwxyz")
upperAlphabet == Chars("ABCDEFGHIJKLMNOPQRSTUVWXYZ")
\* String.prototype.toLowerCase, on the ASCII letters.
LowerChar(c) ==
    IF c \in UpperLetters
    THEN lowerAlphabet[CHOOSE n \in 1..26 : upperAlphabet[n] = c]
    ELSE c
toLowerCase(t) == [i \in 1..Len(t) |-> LowerChar(t[i])]

\* String.prototype.trim
RECURSIVE TrimLeft(_)
TrimLeft(t) ==
    IF t # <<>> /\ Head(t) \in Whitespace THEN TrimLeft(Tail(t)) ELSE t
RECURSIVE TrimRight(_)
TrimRight(t) ==
    IF t # <<>> /\ t[Len(t)] \in Whitespace
    THEN TrimRight(SubSeq(t, 1, Len(t) - 1)) ELSE t
trim(t) == TrimRight(TrimLeft(t))

\* String.prototype.includes
includes(t, q) == \E i \in 1..(Len(t) + 1) : StartsWithAt(t, q, i)

\* First position >= i where text p occurs in s, 0 when there is none.
IndexOf(s, p, i) ==
    LET hits == { k \in i..Len(s) : StartsWithAt(s, p, k) } IN
    IF hits = {} THEN 0 ELSE Min(hits)

\* Array.prototype.join
RECURSIVE join(_, _)
join(ts, sep) ==
    IF ts = <<>> THEN <<>>
    ELSE IF Len(ts) = 1 THEN ts[1]
    ELSE ts[1] \o sep \o join(Tail(ts), sep)

(***************************************************************************)
(* extractBibtexEntries: /@(\w+)\{([^,]+),[\s\S]*?\n\}/g in an exec loop   *)
(***************************************************************************)
\* Length of the longest run of word characters from position j.
WordRun(s, j) ==
    Min({ k \in j..(Len(s) + 1) : At(s, k) \notin WordChars }) - j

\* The outcome of a match attempt: whether it matched, its first and last
\* position and capture group 2.
NoMatch == [found |-> FALSE, first |-> 0, last |-> 0, key |-> <<>>]

\* [\s\S]*?\n\} : the lazy tail stops at the first newline followed by a
\* closing brace (close: the position of that newline, 0 when there is none),
\* wherever that brace stands.
EntryRegexTail(s, i, brace, comma, close) ==
    IF close > 0
    THEN [found |-> TRUE, first |-> i, last |-> close + 1,
          key |-> SubSeq(s, brace + 1, comma - 1)]
    ELSE NoMatch

\* ([^,]+), : the key is everything up to the next comma, at least one
\* character (comma: the position of that comma, 0 when there is none).
EntryRegexKey(s, i, brace, comma) ==
    IF comma > brace + 1
    THEN EntryRegexTail(s, i, brace, comma, IndexOf(s, <<"\n", "}">>, comma + 1))
    ELSE NoMatch

\* (\w+)\{ : the type is the whole word run, at least one character, and an
\* opening brace must follow it (brace: the position after the run).
EntryRegexType(s, i, brace) ==
    IF brace > i + 1 /\ At(s, brace) = "{"
    THEN EntryRegexKey(s, i, brace, IndexOf(s, <<",">>, brace + 1))
    ELSE NoMatch

\* The match that starts at position i, if any.
EntryRegexMatch(s, i) ==
    IF At(s, i) = "@"
    THEN EntryRegexType(s, i, i + 1 + WordRun(s, i + 1))
    ELSE NoMatch

\* regex.exec from lastIndex: the leftmost position that matches.
EntryRegexExec(s, from) ==
    EntryRegexMatch(s, Min({ k \in from..Len(s) : EntryRegexMatch(s, k).found }
                           \cup {Len(s) + 1}))

\* The while loop: the matches in order, each resuming after the previous.
RECURSIVE EntryRegexMatches(_, _)
EntryRegexLoop(s, m) ==
    IF m.found THEN <<m>> \o EntryRegexMatches(s, m.last + 1) ELSE <<>>

EntryRegexMatches(s, from) == EntryRegexLoop(s, EntryRegexExec(s, from))

\* entries[citationKey] = match[0] for the matches ms in order; a later match
\* overwrites an earlier one.
EntryTable(bibtexText, ms) ==
    [k \in { Str(ms[n].key) : n \in 1..Len(ms) } |->
        SubSeq(bibtexText,
               ms[CHOOSE a \in 1..Len(ms) :
                     /\ Str(ms[a].key) = k
                     /\ \A b \in (a + 1)..Len(ms) : Str(ms[b].key) # k].first,
               ms[CHOOSE a \in 1..Len(ms) :
                     /\ Str(ms[a].key) = k
                     /\ \A b \in (a + 1)..Len(ms) : Str(ms[b].key) # k].last)]

extractBibtexEntries(bibtexText) ==
    EntryTable(bibtexText, EntryRegexMatches(bibtexText, 1))

\* bibtexEntries[key] || ''
EntryTextOf(entries, key) ==
    IF Str(key) \in DOMAIN entries THEN entries[Str(key)] ELSE <<>>

(***************************************************************************)
(* bibtexParse.toJSON: the record parser.  The library is not part of the  *)
(* sources; it is modelled from the parser contract of the specification   *)
(* (balanced braces, top-level commas, one layer of braces or quotes       *)
(* stripped from a value, lower-cased field names, entries without key or  *)
(* type dropped, failure on an entry that is never closed).                *)
(***************************************************************************)
\* Opening minus closing braces among the positions a..b of s.
DepthChange(s, a, b) ==
    Cardinality({ k \in a..b : At(s, k) = "{" })
        - Cardinality({ k \in a..b : At(s, k) = "}" })

\* Position of the closing brace that brings the depth back to zero, scanning
\* from i at the given depth; 0 when the text ends first.
MatchingClose(s, i, depth) ==
    LET closes == { k \in i..Len(s) :
                      s[k] = "}" /\ depth + DepthChange(s, i, k) = 0 }
    IN  IF closes = {} THEN 0 ELSE Min(closes)

\* The elements of a set of integers in increasing order.
Ascending(S) ==
    [r \in 1..Cardinality(S) |->
        CHOOSE k \in S : Cardinality({ j \in S : j < k }) = r - 1]

\* The segments of s between commas that stand outside every brace group.
SplitTopLevel(s) ==
    LET commas == Ascending({ k \in 1..Len(s) :
                      s[k] = "," /\ DepthChange(s, 1, k) = 0 })
        n      == Len(commas)
    IN  [r \in 1..(n + 1) |->
            SubSeq(s, IF r = 1 THEN 1 ELSE commas[r - 1] + 1,
                      IF r = n + 1 THEN Len(s) ELSE commas[r] - 1)]

\* One layer of enclosing braces or quotes removed, inner braces kept.
StripOneLayer(v) ==
    IF Len(v) >= 2 /\ v[1] = "{" /\ MatchingClose(v, 2, 1) = Len(v)
    THEN SubSeq(v, 2, Len(v) - 1)
    ELSE IF Len(v) >= 2 /\ v[1] = "\"" /\ v[Len(v)] = "\""
         THEN SubSeq(v, 2, Len(v) - 1)
         ELSE v

\* A name = value segment: the lower-cased name and the stripped value.
FieldOf(segment) ==
    LET eq == IndexOf(segment, <<"=">>, 1) IN
    IF eq = 0 THEN [name |-> "", value |-> <<>>]
    ELSE [name  |-> Str(toLowerCase(trim(SubSeq(segment, 1, eq - 1)))),
          value |-> StripOneLayer(trim(SubSeq(segment, eq + 1, Len(segment))))]

\* The fields of the segments; a later assignment of a name overwrites.
FieldsOf(segments) ==
    LET fs    == [n \in 1..Len(segments) |-> FieldOf(segments[n])]
        names == { fs[n].name : n \in 1..Len(fs) } \ {""}
    IN  [f \in names |->
            fs[CHOOSE a \in 1..Len(fs) :
                  /\ fs[a].name = f
                  /\ \A b \in 1..Len(fs) : fs[b].name = f => b <= a].value]

\* The entry whose marker starts at `at`, with braces at `brace` and `close`.
ParsedEntry(s, at, brace, close) ==
    LET segments == SplitTopLevel(SubSeq(s, brace + 1, close - 1))
    IN  [entryType    |-> SubSeq(s, at + 1, brace - 1),
         citationKey  |-> IF Len(segments) >= 2 THEN trim(segments[1]) ELSE <<>>,
         entryTags    |-> FieldsOf(Tail(segments)),
         verbatimText |-> SubSeq(s, at, close)]

\* Both the type and the citation key must be present.
ValidEntry(e) ==
    /\ e.entryType # <<>>
    /\ e.citationKey # <<>>
    /\ \A n \in 1..Len(e.citationKey) : e.citationKey[n] \notin {"{", "}", "="}

\* The entries from position i on, in document order; ok = FALSE when an
\* entry is never closed (MalformedEntryError).
RECURSIVE ParseFrom(_, _)
ParseFrom(s, i) ==
    LET at == IndexOf(s, <<"@">>, i) IN
    IF at = 0 THEN [ok |-> TRUE, entries |-> <<>>]
    ELSE LET brace == at + 1 + WordRun(s, at + 1) IN
         IF At(s, brace) # "{" THEN ParseFrom(s, at + 1)
         ELSE LET close == MatchingClose(s, brace + 1, 1) IN
              IF close = 0 THEN [ok |-> FALSE, entries |-> <<>>]
              ELSE LET e    == ParsedEntry(s, at, brace, close)
                       rest == ParseFrom(s, close + 1)
                   IN  [ok      |-> rest.ok,
                        entries |-> IF rest.ok
                                    THEN (IF ValidEntry(e) THEN <<e>> ELSE <<>>)
                                             \o rest.entries
                                    ELSE <<>>]

bibtexParse(s) == ParseFrom(s, 1)

\* A copy that decodes the value on its way.
DecodedTag(tags, name) ==
    IF name \in DOMAIN tags THEN convertLatexToUnicode(tags[name]) ELSE <<>>

\* tags.name || ''
Tag(tags, name) == IF name \in DOMAIN tags THEN tags[name] ELSE <<>>

(***************************************************************************)
(* Numbers and sorting                                                     *)
(***************************************************************************)
NaN == [nan |-> TRUE, val |-> 0]
Num(n) == [nan |-> FALSE, val |-> n]

digitSeq == Chars("0123456789")
DigitValue(c) == (CHOOSE n \in 1..10 : digitSeq[n] = c) - 1

RECURSIVE DecimalValue(_)
DecimalValue(t) ==
    IF t = <<>> THEN 0
    ELSE 10 * DecimalValue(SubSeq(t, 1, Len(t) - 1)) + DigitValue(t[Len(t)])

\* Length of the longest run of digits from position j.
DigitRun(s, j) ==
    Min({ k \in j..(Len(s) + 1) : At(s, k) \notin Digits }) - j

\* parseInt: leading whitespace skipped, an optional sign, then the longest
\* prefix of decimal digits; NaN when there is no digit.
parseInt(t) ==
    LET u    == TrimLeft(t)
        sign == IF u # <<>> /\ u[1] = "-" THEN -1 ELSE 1
        v    == IF u # <<>> /\ u[1] \in {"-", "+"} THEN Tail(u) ELSE u
        n    == DigitRun(v, 1)
    IN  IF n = 0 THEN NaN ELSE Num(sign * DecimalValue(SubSeq(v, 1, n)))

\* The numeric value of a string operand of `b - a`: the whole trimmed string
\* must be decimal digits (the empty string is 0); anything else is NaN.
ToNumber(t) ==
    LET u == trim(t) IN
    IF u = <<>> THEN Num(0)
    ELSE IF DigitRun(u, 1) = Len(u) THEN Num(DecimalValue(u))
    ELSE NaN

\* a >= b and a <= b on numbers: false when either side is NaN.
NumGeq(a, b) == ~a.nan /\ ~b.nan /\ a.val >= b.val
NumLeq(a, b) == ~a.nan /\ ~b.nan /\ a.val <= b.val

\* Stable sort of items by ascending weight.
StableSortBy(items, weight) ==
    LET n == Len(items)
        Before(j, i) == \/ weight[j] < weight[i]
                        \/ (weight[j] = weight[i] /\ j < i)
        order == SortSeq([i \in 1..n |-> i], Before)
    IN  [r \in 1..n |-> items[order[r]]]

Reorderings(items) ==
    LET n == Len(items) IN
    { [r \in 1..n |-> items[f[r]]] :
        f \in { g \in [1..n -> 1..n] : \A a, b \in 1..n : a # b => g[a] # g[b] } }

\* Array.prototype.sort with a comparator that subtracts numeric keys
\* (direction = -1: descending, 1: ascending).  A NaN difference counts as
\* equal; the sort is stable.  When NaN keys stand beside different numbers
\* the comparator is inconsistent and the order is implementation-defined:
\* every permutation is a possible outcome.
SortOutcomes(items, keys, direction) ==
    LET n       == Len(items)
        numbers == { keys[i].val : i \in { j \in 1..n : ~keys[j].nan } }
    IN  IF \A i \in 1..n : ~keys[i].nan
        THEN { StableSortBy(items, [i \in 1..n |-> direction * keys[i].val]) }
        ELSE IF Cardinality(numbers) <= 1 THEN { items }
        ELSE Reorderings(items)

\* [...new Set(xs)]: first occurrences, in order.
Unique(xs) ==
    LET firsts == SelectSeq([n \in 1..Len(xs) |-> n],
                            LAMBDA n : \A m \in 1..(n - 1) : xs[m] # xs[n])
    IN  [k \in 1..Len(firsts) |-> xs[firsts[k]]]

\* String.prototype.split on a non-empty separator.
RECURSIVE split(_, _)
split(t, sep) ==
    LET at == IndexOf(t, sep, 1) IN
    IF at = 0 THEN <<t>>
    ELSE <<SubSeq(t, 1, at - 1)>> \o split(SubSeq(t, at + Len(sep), Len(t)), sep)

\* replace(/[{}]/g, '')
RemoveAllBraces(t) == SelectSeq(t, LAMBDA c : c \notin {"{", "}"})

(***************************************************************************)
(* Configuration tables                                                    *)
(***************************************************************************)
FIELD_MAP ==
    [c \in {"AU", "TR", "HW", "SS", "IM", "RE"} |->
        CASE c = "AU" -> "Automation"
          [] c = "TR" -> "Training, skill assessment and gesture recognition"
          [] c = "HW" -> "Hardware implementation and integration"
          [] c = "SS" -> "System simulation and modelling"
          [] c = "IM" -> "Imaging and vision"
          [] c = "RE" -> "Reviews"]

DATA_TYPE_MAP ==
    [c \in {"RI", "KD", "DD", "SD", "ED"} |->
        CASE c = "RI" -> "Raw Images"
          [] c = "KD" -> "Kinematic Data"
          [] c = "DD" -> "Dynamic Data"
          [] c = "SD" -> "System Data"
          [] c = "ED" -> "External Data"]

\* The site table is configuration that the sources do not contain; two
\* sites stand for it.
SITE_MAP ==
    [c \in {"JHU", "WPI"} |->
        CASE c = "JHU" -> "Johns Hopkins University"
          [] c = "WPI" -> "Worcester Polytechnic Institute"]

\* The separator of a code list.
AndSeparator == Chars(" and ")

\* A split that keeps the empty tokens.
UnfilteredCodeTokens(value) ==
    LET parts == split(value, AndSeparator) IN
    [n \in 1..Len(parts) |-> trim(parts[n])]

\* split(' and ').map(trim).filter(non-empty)
CodeTokens(value) ==
    LET parts == split(value, AndSeparator) IN
    SelectSeq([n \in 1..Len(parts) |-> trim(parts[n])], LAMBDA c : c # <<>>)

\* The tables are object literals: a lookup that finds no own key goes on to
\* Object.prototype, whose members are all truthy.  These names stand for them.
ObjectPrototypeKeys ==
    {"constructor", "toString", "valueOf", "hasOwnProperty", "isPrototypeOf",
     "propertyIsEnumerable", "toLocaleString", "__proto__"}

\* The value of Object.prototype[key]: a function or object, not a string.
Inherited(key) == "Object.prototype." \o key

\* CONFIG.X_MAP[code] || code
NameOf(map, code) ==
    IF Str(code) \in DOMAIN map THEN map[Str(code)]
    ELSE IF Str(code) \in ObjectPrototypeKeys THEN Inherited(Str(code))
    ELSE Str(code)

parseFields(fields) ==
    IF fields = <<>> THEN <<>>
    ELSE LET codes == CodeTokens(fields) IN
         [n \in 1..Len(codes) |-> NameOf(FIELD_MAP, codes[n])]

parseDataTypes(dataTypes) ==
    IF dataTypes = <<>> THEN <<>>
    ELSE LET codes == CodeTokens(dataTypes) IN
         [n \in 1..Len(codes) |-> NameOf(DATA_TYPE_MAP, codes[n])]

parseSites(sites) ==
    IF sites = <<>> THEN <<>>
    ELSE LET codes == CodeTokens(sites) IN
         [n \in 1..Len(codes) |->
            [acronym |-> Str(codes[n]), name |-> NameOf(SITE_MAP, codes[n])]]

\* No code-list value has been written or parsed.
NoCodes ==
    /\ codePieces = <<>>
    /\ parsedFields = NotRun
    /\ parsedDataTypes = NotRun
    /\ parsedSites = NotRun

(***************************************************************************)
(* The list view (app.js)                                                  *)
(***************************************************************************)
\* URL query parameters: the names present and the value of each.
UrlNames == {"year", "startYear", "endYear", "field", "dataType", "site"}
NoParams == [has |-> {}, get |-> [n \in UrlNames |-> <<>>]]
OneParam(name, value) ==
    [has |-> {name}, get |-> [n \in UrlNames |-> IF n = name THEN value ELSE <<>>]]

\* data(): the state of a freshly created component.
Created ==
    /\ pc = "created"
    /\ publications = <<>>
    /\ bibtexEntries = NotRun
    /\ searchQuery = <<>>
    /\ startYear = <<>>
    /\ endYear = <<>>
    /\ selectedType = <<>>
    /\ selectedField = ""
    /\ selectedDataType = ""
    /\ selectedSite = ""
    /\ currentPage = 1
    /\ download = NotRun
    /\ consoleErrors = 0
    /\ loading = TRUE
    /\ chartsScheduled = 0

\* The record loadPublications builds for a parsed entry.  src is a history
\* field: the rank of the entry among the parsed entries, in document order;
\* no operation reads it.
ToPublication(entry, n, entries) ==
    LET tags == entry.entryTags IN
    [ id              |-> entry.citationKey,
      type            |-> entry.entryType,
      title           |-> convertLatexToUnicode(Tag(tags, "title")),
      author          |-> convertLatexToUnicode(Tag(tags, "author")),
      year            |-> Tag(tags, "year"),
      journal         |-> convertLatexToUnicode(Tag(tags, "journal")),
      booktitle       |-> convertLatexToUnicode(Tag(tags, "booktitle")),
      volume          |-> Tag(tags, "volume"),
      number          |-> Tag(tags, "number"),
      pages           |-> Tag(tags, "pages"),
      publisher       |-> convertLatexToUnicode(Tag(tags, "publisher")),
      doi             |-> Tag(tags, "doi"),
      url             |-> Tag(tags, "url"),
      ieeexplore      |-> Tag(tags, "ieeexplore"),
      semanticscholar |-> Tag(tags, "semanticscholar"),
      arxiv           |-> Tag(tags, "arxiv"),
      abstract        |-> convertLatexToUnicode(Tag(tags, "abstract")),
      openaccesspdf   |-> Tag(tags, "openaccesspdf"),
      research_field  |-> RemoveAllBraces(Tag(tags, "research_field")),
      data_type       |-> RemoveAllBraces(Tag(tags, "data_type")),
      dvrk_site       |-> RemoveAllBraces(Tag(tags, "dvrk_site")),
      bibtexText      |-> EntryTextOf(entries, entry.citationKey),
      showBibtex      |-> FALSE,
      showAbstract    |-> FALSE,
      src             |-> n ]

\* A filter that asks for the year alone.
HasYear(entry) == Tag(entry.entryTags, "year") # <<>>

\* .filter(entry => entry.entryTags && entry.entryTags.title && entry.entryTags.year)
HasTitleAndYear(entry) ==
    /\ Tag(entry.entryTags, "title") # <<>>
    /\ Tag(entry.entryTags, "year") # <<>>

\* A load that keeps, of the entries with one citation key, the last only.
LastOfKeyPublications(entries, table) ==
    LET kept == SelectSeq([n \in 1..Len(entries) |-> n],
                          LAMBDA n : /\ HasTitleAndYear(entries[n])
                                     /\ \A m \in (n + 1)..Len(entries) :
                                            entries[m].citationKey # entries[n].citationKey)
    IN  [m \in 1..Len(kept) |-> ToPublication(entries[kept[m]], kept[m], table)]

\* .filter(...).map(...) of loadPublications: the records in document order.
MappedPublications(entries, table) ==
    LET kept == SelectSeq([n \in 1..Len(entries) |-> n],
                          LAMBDA n : HasTitleAndYear(entries[n]))
    IN  [m \in 1..Len(kept) |-> ToPublication(entries[kept[m]], kept[m], table)]

\* A sort by ascending year, as a slip of the comparator would give.
SortByYearAscending(pubs) ==
    SortOutcomes(pubs, [n \in 1..Len(pubs) |-> parseInt(pubs[n].year)], 1)

\* .sort((a, b) => parseInt(b.year) - parseInt(a.year)): the possible orders.
SortByYearDescending(pubs) ==
    SortOutcomes(pubs, [n \in 1..Len(pubs) |-> parseInt(pubs[n].year)], -1)

\* Position of the first entry marker whose brace is never closed, 0 if none.
FirstUnclosed(s) ==
    LET open == { at \in 1..Len(s) :
                    /\ s[at] = "@"
                    /\ At(s, at + 1 + WordRun(s, at + 1)) = "{"
                    /\ MatchingClose(s, at + 2 + WordRun(s, at + 1), 1) = 0 }
    IN  IF open = {} THEN 0 ELSE Min(open)

\* A load that swallows the parser's failure and keeps the entries that
\* precede the unclosed one.
TolerantLoadOutcome(bibtexText) ==
    LET cut    == FirstUnclosed(bibtexText)
        prefix == IF cut = 0 THEN bibtexText ELSE SubSeq(bibtexText, 1, cut - 1)
        parsed == bibtexParse(prefix)
        table  == extractBibtexEntries(bibtexText)
    IN  [threw   |-> FALSE,
         parsed  |-> parsed.entries,
         table   |-> table,
         results |-> SortByYearDescending(MappedPublications(parsed.entries, table))]

\* A load that fails when the parser finds no entry.
StrictLoadOutcome(bibtexText) ==
    LET parsed == bibtexParse(bibtexText)
        table  == extractBibtexEntries(bibtexText)
    IN  [threw   |-> ~parsed.ok \/ parsed.entries = <<>>,
         parsed  |-> parsed.entries,
         table   |-> table,
         results |-> IF ~parsed.ok \/ parsed.entries = <<>> THEN {}
                     ELSE SortByYearDescending(
                              MappedPublications(parsed.entries, table))]

\* The body of the try block of loadPublications on the fetched text: either
\* the parser throws and control goes to the catch block, or the records are
\* built, filtered and sorted (results: the orders the sort can produce).
\* parsed and table are the constants parsed and bibtexEntries of the block.
LoadOutcome(bibtexText) ==
    LET parsed == bibtexParse(bibtexText)
        table  == extractBibtexEntries(bibtexText)
    IN  [threw   |-> ~parsed.ok,
         parsed  |-> parsed.entries,
         table   |-> table,
         results |-> IF ~parsed.ok THEN {}
                     ELSE SortByYearDescending(
                              MappedPublications(parsed.entries, table))]

\* The publications a load of bibtexText can assign; none when it throws.
LoadedPublications(bibtexText) == LoadOutcome(bibtexText).results

\* The distinct years from the earliest to the latest.
AscendingYears(pubs) ==
    LET years == Unique([n \in 1..Len(pubs) |-> pubs[n].year]) IN
    SortOutcomes(years, [n \in 1..Len(years) |-> ToNumber(years[n])], 1)

\* availableYears: the distinct years, sorted by (a, b) => b - a.
AvailableYears(pubs) ==
    LET years == Unique([n \in 1..Len(pubs) |-> pubs[n].year]) IN
    SortOutcomes(years, [n \in 1..Len(years) |-> ToNumber(years[n])], -1)

\* filteredPublications, for given publications and filters.
Filtered(pubs, query, from, to, type, field, dataType, site) ==
    LET q  == toLowerCase(query)
        f1 == IF query = <<>> THEN pubs
              ELSE SelectSeq(pubs, LAMBDA p :
                       \/ includes(toLowerCase(p.title), q)
                       \/ includes(toLowerCase(p.author), q)
                       \/ includes(toLowerCase(p.journal), q)
                       \/ includes(toLowerCase(p.booktitle), q))
        f2 == IF from = <<>> THEN f1
              ELSE SelectSeq(f1, LAMBDA p : NumGeq(parseInt(p.year), parseInt(from)))
        f3 == IF to = <<>> THEN f2
              ELSE SelectSeq(f2, LAMBDA p : NumLeq(parseInt(p.year), parseInt(to)))
        f4 == IF type = <<>> THEN f3
              ELSE SelectSeq(f3, LAMBDA p : p.type = type)
        f5 == IF field = "" THEN f4
              ELSE SelectSeq(f4, LAMBDA p :
                       /\ p.research_field # <<>>
                       /\ \E n \in 1..Len(parseFields(p.research_field)) :
                              parseFields(p.research_field)[n] = field)
        f6 == IF dataType = "" THEN f5
              ELSE SelectSeq(f5, LAMBDA p :
                       /\ p.data_type # <<>>
                       /\ \E n \in 1..Len(parseDataTypes(p.data_type)) :
                              parseDataTypes(p.data_type)[n] = dataType)
        f7 == IF site = "" THEN f6
              ELSE SelectSeq(f6, LAMBDA p :
                       /\ p.dvrk_site # <<>>
                       /\ \E n \in 1..Len(parseSites(p.dvrk_site)) :
                              \/ parseSites(p.dvrk_site)[n].acronym = site
                              \/ parseSites(p.dvrk_site)[n].name = site)
    IN  f7

filteredPublications ==
    Filtered(publications, searchQuery, startYear, endYear, selectedType,
             selectedField, selectedDataType, selectedSite)

\* A mount that leaves the start year as it is.
UnreadUrlStartYear == startYear

\* applyUrlFilters: the value each filter has after the URL was applied.
\* The URL values of the model contain no percent sign, on which
\* decodeURIComponent returns its argument.
UrlStartYear ==
    IF "startYear" \in urlParams.has THEN urlParams.get["startYear"]
    ELSE IF "year" \in urlParams.has THEN urlParams.get["year"]
    ELSE startYear
UrlEndYear ==
    IF "endYear" \in urlParams.has THEN urlParams.get["endYear"]
    ELSE IF "year" \in urlParams.has THEN urlParams.get["year"]
    ELSE endYear
UrlChoice(name, current) ==
    IF name \in urlParams.has THEN Str(urlParams.get[name]) ELSE current

(***************************************************************************)
(* Documents: up to MaxEntries entries of a pool, separated by blank lines *)
(***************************************************************************)
MaxEntries == 2

\* the separator of two entries: one blank line
BlankLine == <<"\n", "\n">>

\* an ordinary entry, closed by a brace on a line of its own
PlainEntry ==
    Chars("@article{k1,\n  title = {Robot},\n  year = {2021},\n}")
\* a field value with a nested brace group on one line
NestedEntry ==
    Chars("@article{k2,\n  title = {A {Nested} Value},\n  year = {2022},\n}")
\* a field value with a line that begins with a closing brace
BrokenLineEntry ==
    Chars("@article{k3,\n  title = {Long {name\n} here},\n  year = {2021},\n}")
\* an entry closed on the line of its last field
InlineEntry ==
    Chars("@misc{k4, title = {Inline}, year = {2020}}")
\* a second entry with the citation key of PlainEntry
SameKeyEntry ==
    Chars("@inproceedings{k1,\n  title = {Second},\n  year = {2022},\n}")
\* an entry without a title
UntitledEntry ==
    Chars("@misc{k5,\n  year = {2021},\n}")
\* an entry without a citation key
KeylessEntry ==
    Chars("@misc{,\n  title = {Keyless},\n  year = {2021},\n}")
\* an entry whose opening brace is never closed
OpenEntry ==
    Chars("@article{k6,\n  title = {Open},\n  year = {2021},\n")
\* an entry whose year is not a number
UndatedEntry ==
    Chars("@misc{k7,\n  title = {Undated},\n  year = {n.d.},\n}")
\* an entry with an escape in the title and the three code lists
CodedEntry ==
    Chars("@article{k8,\n  title = {Caf\\'e},\n  year = {2022},\n  research_field = {AU and TR},\n  data_type = {RI},\n  dvrk_site = {JHU and WPI},\n}")

EntryPool ==
    { PlainEntry, NestedEntry, BrokenLineEntry, InlineEntry, SameKeyEntry,
      UntitledEntry, KeylessEntry, OpenEntry, UndatedEntry, CodedEntry }

Documents ==
    { join(es, BlankLine) : es \in UNION { [1..n -> EntryPool] : n \in 0..MaxEntries } }

\* an entry with the site list under its old plural name
LegacySiteEntry ==
    Chars("@article{k9,\n  title = {Legacy},\n  year = {2018},\n  dvrk_sites = {JHU and WPI},\n}")
\* an entry whose code lists keep a brace pair after the parser's extraction
BracedCodesEntry ==
    Chars("@article{k10,\n  title = {Braced},\n  year = {2020},\n  research_field = {{AU and TR}},\n  data_type = {{RI}},\n  dvrk_site = {{JHU}},\n}")
\* an entry with every field that loadPublications copies as it is
FullEntry ==
    Chars("@article{k11,\n title = {Full},\n year = {2019},\n volume = {12},\n number = {3},\n pages = {1--10},\n doi = {10.1/{\\'e}x},\n url = {a.b/c},\n ieeexplore = {123},\n semanticscholar = {s1},\n arxiv = {2101.1},\n openaccesspdf = {a.b/p},\n}")

RecordPool == { LegacySiteEntry, BracedCodesEntry, FullEntry }

RecordDocuments ==
    { join(es, BlankLine) : es \in UNION { [1..n -> RecordPool] : n \in 0..MaxEntries } }

UrlChoices ==
    { NoParams,
      OneParam("year", Chars("2021")),
      OneParam("startYear", Chars("2022")),
      OneParam("endYear", Chars("2020")),
      OneParam("field", Chars("Automation")),
      OneParam("dataType", Chars("Raw Images")),
      OneParam("site", Chars("JHU")) }

\* What the list view's load makes of each document, evaluated once per
\* document.
ListLoads == [d \in Documents \cup RecordDocuments |-> LoadOutcome(d)]

(***************************************************************************)
(* The operations of the list view                                         *)
(***************************************************************************)
\* mounted(): CONFIG.init() has resolved; loadPublications runs up to its
\* fetch and suspends; applyUrlFilters runs before the fetch can resume.  The
\* watcher of filteredPublications puts the page back to 1.
Mounted ==
    /\ page = "list"
    /\ pc = "created"
    /\ pc' = "fetching"
    /\ startYear' = UrlStartYear
    /\ endYear' = UrlEndYear
    /\ selectedField' = UrlChoice("field", selectedField)
    /\ selectedDataType' = UrlChoice("dataType", selectedDataType)
    /\ selectedSite' = UrlChoice("site", selectedSite)
    /\ currentPage' = IF urlParams.has # {} THEN 1 ELSE currentPage
    /\ UNCHANGED <<decodeVars, codeVars, chartsScheduled, doc, urlParams, page, loading, publications, bibtexEntries,
                   searchQuery, selectedType, download, consoleErrors>>

\* A load that adds its records to the publications it finds.
AppendingLoadPublications ==
    /\ page = "list"
    /\ pc = "fetching"
    /\ pc' = "loaded"
    /\ ~ListLoads[doc].threw
    /\ \E pubs \in ListLoads[doc].results :
         /\ publications' = publications \o pubs
         /\ \E years \in AvailableYears(publications \o pubs) :
              IF Len(publications \o pubs) > 0 /\ Len(years) > 0
              THEN /\ startYear' = IF startYear = <<>>
                                   THEN years[Len(years)] ELSE startYear
                   /\ endYear' = IF endYear = <<>>
                                 THEN years[1] ELSE endYear
              ELSE UNCHANGED <<startYear, endYear>>
    /\ bibtexEntries' = Ran(ListLoads[doc].table)
    /\ currentPage' = 1
    /\ UNCHANGED <<searchQuery, selectedType, selectedField,
                   selectedDataType, selectedSite, consoleErrors>>
    /\ UNCHANGED <<decodeVars, codeVars, chartsScheduled, doc, urlParams, page, loading, download>>

\* loadPublications after the fetch: parse, extract, convert, sort, assign,
\* then give an empty year bound its default.  The parser throws on a
\* malformed document and the catch block reports the error.
LoadPublications ==
    /\ page = "list"
    /\ pc = "fetching"
    /\ pc' = "loaded"
    /\ IF ListLoads[doc].threw
       THEN /\ consoleErrors' = consoleErrors + 1
            /\ UNCHANGED <<publications, bibtexEntries, filterVars, currentPage>>
       ELSE /\ \E pubs \in ListLoads[doc].results :
                /\ publications' = pubs
                /\ \E years \in AvailableYears(pubs) :
                     IF Len(pubs) > 0 /\ Len(years) > 0
                     THEN /\ startYear' = IF startYear = <<>>
                                          THEN years[Len(years)] ELSE startYear
                          /\ endYear' = IF endYear = <<>>
                                        THEN years[1] ELSE endYear
                     ELSE UNCHANGED <<startYear, endYear>>
            /\ bibtexEntries' = Ran(ListLoads[doc].table)
            /\ currentPage' = 1
            /\ UNCHANGED <<searchQuery, selectedType, selectedField,
                           selectedDataType, selectedSite, consoleErrors>>
    /\ UNCHANGED <<decodeVars, codeVars, chartsScheduled, doc, urlParams, page, loading, download>>

\* loadPublications when the fetch itself fails: the catch block reports it.
LoadPublicationsFetchError ==
    /\ page = "list"
    /\ pc = "fetching"
    /\ pc' = "loaded"
    /\ consoleErrors' = consoleErrors + 1
    /\ UNCHANGED <<decodeVars, codeVars, chartsScheduled, doc, urlParams, page, loading, publications, bibtexEntries,
                   filterVars, currentPage, download>>

\* downloadBibtex: the non-empty source texts of the filtered publications
\* joined by a blank line; the file name carries the filtered count.
DownloadContent(pubs) ==
    join(SelectSeq([n \in 1..Len(pubs) |-> pubs[n].bibtexText],
                   LAMBDA t : t # <<>>), BlankLine)

DownloadBibtex ==
    /\ page = "list"
    /\ pc # "created"
    /\ download' = Ran([count   |-> Len(filteredPublications),
                        content |-> DownloadContent(filteredPublications)])
    /\ UNCHANGED <<decodeVars, codeVars, chartsScheduled, doc, urlParams, page, loading, pc, publications, bibtexEntries,
                   filterVars, currentPage, consoleErrors>>

\* resetFilters
ResetFilters ==
    /\ page = "list"
    /\ pc # "created"
    /\ searchQuery' = <<>>
    /\ \E years \in AvailableYears(publications) :
         IF Len(publications) > 0 /\ Len(years) > 0
         THEN startYear' = years[Len(years)] /\ endYear' = years[1]
         ELSE startYear' = <<>> /\ endYear' = <<>>
    /\ selectedType' = <<>>
    /\ selectedField' = ""
    /\ selectedDataType' = ""
    /\ selectedSite' = ""
    /\ currentPage' = 1
    /\ UNCHANGED <<decodeVars, codeVars, chartsScheduled, doc, urlParams, page, loading, pc, publications, bibtexEntries,
                   download, consoleErrors>>

\* A toggle that leaves the other panel as it is.
ToggleBibtexAlone(pub) == [pub EXCEPT !.showBibtex = ~pub.showBibtex]

\* toggleBibtex(pub)
toggleBibtex(pub) ==
    LET shown == ~pub.showBibtex IN
    [pub EXCEPT !.showBibtex = shown,
                !.showAbstract = IF shown THEN FALSE ELSE @]

\* toggleAbstract(pub)
toggleAbstract(pub) ==
    LET shown == ~pub.showAbstract IN
    [pub EXCEPT !.showAbstract = shown,
                !.showBibtex = IF shown THEN FALSE ELSE @]

\* A click on the BibTeX button of a listed publication.
ToggleBibtex ==
    /\ page = "list"
    /\ pc # "created"
    /\ \E n \in 1..Len(publications) :
         publications' = [publications EXCEPT ![n] = toggleBibtex(@)]
    /\ UNCHANGED <<decodeVars, codeVars, chartsScheduled, doc, urlParams, page, loading, pc, bibtexEntries,
                   filterVars, currentPage, download, consoleErrors>>

\* A click on the abstract button of a listed publication.
ToggleAbstract ==
    /\ page = "list"
    /\ pc # "created"
    /\ \E n \in 1..Len(publications) :
         publications' = [publications EXCEPT ![n] = toggleAbstract(@)]
    /\ UNCHANGED <<decodeVars, codeVars, chartsScheduled, doc, urlParams, page, loading, pc, bibtexEntries,
                   filterVars, currentPage, download, consoleErrors>>

(***************************************************************************)
(* The analytics view (part_002)                                           *)
(***************************************************************************)
\* The record the analytics loadPublications builds for a parsed entry; src
\* is the history field of ToPublication.
AnalyticsToPublication(entry, n) ==
    LET tags == entry.entryTags IN
    [ id             |-> entry.citationKey,
      type           |-> entry.entryType,
      title          |-> convertLatexToUnicode(RemoveAllBraces(Tag(tags, "title"))),
      author         |-> convertLatexToUnicode(Tag(tags, "author")),
      year           |-> Tag(tags, "year"),
      research_field |-> Tag(tags, "research_field"),
      data_type      |-> Tag(tags, "data_type"),
      src            |-> n ]

\* .filter(...).map(...) of the analytics load: the records in document order.
AnalyticsMappedPublications(entries) ==
    LET kept == SelectSeq([n \in 1..Len(entries) |-> n],
                          LAMBDA n : HasTitleAndYear(entries[n]))
    IN  [m \in 1..Len(kept) |-> AnalyticsToPublication(entries[kept[m]], kept[m])]

\* .sort((a, b) => parseInt(a.year) - parseInt(b.year)): the possible orders.
AnalyticsSort(pubs) ==
    SortOutcomes(pubs, [n \in 1..Len(pubs) |-> parseInt(pubs[n].year)], 1)

\* The try block of the analytics loadPublications on the fetched text.
AnalyticsLoadOutcome(bibtexText) ==
    LET parsed == bibtexParse(bibtexText) IN
    IF ~parsed.ok THEN [threw |-> TRUE, results |-> {}]
    ELSE [threw   |-> FALSE,
          results |-> AnalyticsSort(AnalyticsMappedPublications(parsed.entries))]

\* What the analytics load makes of each document, evaluated once per document.
AnalyticsLoads ==
    [d \in Documents \cup RecordDocuments |-> AnalyticsLoadOutcome(d)]

\* mounted(): loadPublications starts and suspends at the fetch.
AnalyticsMounted ==
    /\ page = "analytics"
    /\ pc = "created"
    /\ pc' = "fetching"
    /\ UNCHANGED <<decodeVars, codeVars, chartsScheduled, doc, urlParams, page, publications, bibtexEntries,
                   filterVars, currentPage, download, consoleErrors, loading>>

\* The analytics loadPublications after the fetch; a failure of the fetch or
\* of the parser goes to the catch block.  Both ends clear the loading flag.
AnalyticsLoadPublications ==
    /\ page = "analytics"
    /\ pc = "fetching"
    /\ pc' = "loaded"
    /\ loading' = FALSE
    /\ \E fetched \in BOOLEAN :
         IF ~fetched \/ AnalyticsLoads[doc].threw
         THEN /\ consoleErrors' = consoleErrors + 1
              /\ UNCHANGED <<publications, chartsScheduled>>
         ELSE /\ publications' \in AnalyticsLoads[doc].results
              /\ chartsScheduled' = chartsScheduled + 1
              /\ UNCHANGED consoleErrors
    /\ UNCHANGED <<decodeVars, codeVars, doc, urlParams, page, bibtexEntries, filterVars,
                   currentPage, download>>

(***************************************************************************)
(* Decoder inputs: an escape in one of its written forms, a named command  *)
(* or a plain brace group, between two short contexts.                     *)
(***************************************************************************)
MaxCtx == 1

CtxAlphabet == {"{", "}", "x", " "}
Contexts == UNION { [1..n -> CtxAlphabet] : n \in 0..MaxCtx }

FormLetters == {"a", "e", "o", "u", "U", "y", "q"}
ArgLetters  == {"c", "C", "e", "r"}

\* The four written forms of an accent escape: \'e  \'{e}  {\'e}  {\'{e}}
WrittenForm(k, accent, letter) ==
    CASE k = 1 -> <<"\\", accent, letter>>
      [] k = 2 -> <<"\\", accent, "{", letter, "}">>
      [] k = 3 -> <<"{", "\\", accent, letter, "}">>
      [] k = 4 -> <<"{", "\\", accent, "{", letter, "}", "}">>

AccentForms ==
    { WrittenForm(k, a, l) : k \in 1..4, a \in Accents, l \in FormLetters }

\* A named command: bare, with a braced letter, or a space and a letter.
BareCommand(cmd)        == <<"\\">> \o Chars(cmd)
BracedCommand(cmd, l)   == <<"\\">> \o Chars(cmd) \o <<"{", l, "}">>
SpacedCommand(cmd, l)   == <<"\\">> \o Chars(cmd) \o <<" ", l>>
CommandNames == { Commands[n] : n \in 1..Len(Commands) }
CommandForms ==
    { BareCommand(c) : c \in CommandNames }
      \cup { BracedCommand(c, l) : c \in CommandNames, l \in ArgLetters }
      \cup { SpacedCommand(c, l) : c \in CommandNames, l \in ArgLetters }

PlainForms == { <<>>, <<"R">>, Chars("{R}"), Chars("{{R}}") }

Forms == AccentForms \cup CommandForms \cup PlainForms

DecoderInputs == { pre \o f \o suf : pre \in Contexts, f \in Forms, suf \in Contexts }

(***************************************************************************)
(* The decoder as a state machine: an input is drawn, then decoded by the  *)
(* shared decoder, decoded a second time, and decoded by the analytics     *)
(* copy.                                                                   *)
(***************************************************************************)
InitDecode ==
    /\ text \in DecoderInputs
    /\ decoded = NotRun
    /\ redecoded = NotRun
    /\ analyticsDecoded = NotRun
    /\ doc = <<>>
    /\ page = "list"
    /\ urlParams = NoParams
    /\ Created
    /\ NoCodes

Convert ==
    /\ ~decoded.run
    /\ decoded' = Ran(convertLatexToUnicode(text))
    /\ UNCHANGED <<text, redecoded, analyticsDecoded, appVars, codeVars>>

ConvertAgain ==
    /\ decoded.run
    /\ ~redecoded.run
    /\ redecoded' = Ran(convertLatexToUnicode(decoded.value))
    /\ UNCHANGED <<text, decoded, analyticsDecoded, appVars, codeVars>>

AnalyticsConvert ==
    /\ ~analyticsDecoded.run
    /\ analyticsDecoded' = Ran(analyticsConvertLatexToUnicode(text))
    /\ UNCHANGED <<text, decoded, redecoded, appVars, codeVars>>

NextDecode == Convert \/ ConvertAgain \/ AnalyticsConvert

SpecDecode == InitDecode /\ [][NextDecode]_vars

(***************************************************************************)
(* Code lists: a value is written as up to MaxCodes pieces joined by the   *)
(* separator, each piece a code with or without blanks around it, or       *)
(* nothing; the three parsers are then applied to it.                      *)
(***************************************************************************)
MaxCodes == 3

Piece(code, written) == [code |-> code, written |-> Chars(written)]

Pieces ==
    { Piece("AU", "AU"), Piece("TR", "TR"), Piece("RI", "RI"),
      Piece("JHU", "JHU"), Piece("XX", "XX"), Piece("KD", " KD "),
      Piece("constructor", "constructor"), Piece("", "") }

\* The value the pieces make.
CodeListOf(pieces) ==
    join([n \in 1..Len(pieces) |-> pieces[n].written], AndSeparator)

InitCodes ==
    /\ codePieces \in UNION { [1..n -> Pieces] : n \in 0..MaxCodes }
    /\ parsedFields = NotRun
    /\ parsedDataTypes = NotRun
    /\ parsedSites = NotRun
    /\ text = <<>>
    /\ decoded = NotRun
    /\ redecoded = NotRun
    /\ analyticsDecoded = NotRun
    /\ doc = <<>>
    /\ page = "list"
    /\ urlParams = NoParams
    /\ Created

ParseFields ==
    /\ ~parsedFields.run
    /\ parsedFields' = Ran(parseFields(CodeListOf(codePieces)))
    /\ UNCHANGED <<decodeVars, appVars, codePieces, parsedDataTypes, parsedSites>>

ParseDataTypes ==
    /\ ~parsedDataTypes.run
    /\ parsedDataTypes' = Ran(parseDataTypes(CodeListOf(codePieces)))
    /\ UNCHANGED <<decodeVars, appVars, codePieces, parsedFields, parsedSites>>

ParseSites ==
    /\ ~parsedSites.run
    /\ parsedSites' = Ran(parseSites(CodeListOf(codePieces)))
    /\ UNCHANGED <<decodeVars, appVars, codePieces, parsedFields, parsedDataTypes>>

NextCodes == ParseFields \/ ParseDataTypes \/ ParseSites

SpecCodes == InitCodes /\ [][NextCodes]_vars

(***************************************************************************)
(* The list view as a state machine                                        *)
(***************************************************************************)
Init ==
    /\ doc \in Documents
    /\ \/ page = "list" /\ urlParams \in UrlChoices
       \/ page = "analytics" /\ urlParams = NoParams
    /\ Created
    /\ NoCodes
    /\ text = <<>>
    /\ decoded = NotRun
    /\ redecoded = NotRun
    /\ analyticsDecoded = NotRun

Next ==
    \/ Mounted
    \/ LoadPublications
    \/ LoadPublicationsFetchError
    \/ DownloadBibtex
    \/ ResetFilters
    \/ AnalyticsMounted
    \/ AnalyticsLoadPublications

Spec == Init /\ [][Next]_vars

(***************************************************************************)
(* The two views on the documents of RecordDocuments, with the buttons of  *)
(* the listed publications.                                                *)
(***************************************************************************)
InitRecords ==
    /\ doc \in RecordDocuments
    /\ page \in {"list", "analytics"}
    /\ urlParams = NoParams
    /\ Created
    /\ NoCodes
    /\ text = <<>>
    /\ decoded = NotRun
    /\ redecoded = NotRun
    /\ analyticsDecoded = NotRun

NextRecords ==
    \/ Mounted
    \/ LoadPublications
    \/ LoadPublicationsFetchError
    \/ ToggleBibtex
    \/ ToggleAbstract
    \/ DownloadBibtex
    \/ ResetFilters
    \/ AnalyticsMounted
    \/ AnalyticsLoadPublications

SpecRecords == InitRecords /\ [][NextRecords]_vars

(***************************************************************************)
(* The same, with loadPublications called again on a loaded list: the call *)
(* runs up to its fetch and the rest follows as after mount.  Calls stop   *)
(* once MaxErrors errors have been reported.                               *)
(***************************************************************************)
MaxErrors == 2

Reload ==
    /\ page = "list"
    /\ pc = "loaded"
    /\ consoleErrors < MaxErrors
    /\ pc' = "fetching"
    /\ UNCHANGED <<decodeVars, codeVars, chartsScheduled, doc, urlParams, page, loading, publications,
                   bibtexEntries, filterVars, currentPage, download, consoleErrors>>

NextReload == NextRecords \/ Reload

SpecReload == InitRecords /\ [][NextReload]_vars

(***************************************************************************)
(* The pages of the list view.  The list has itemsPerPage publications on  *)
(* a page, so the pages show on documents of many entries: the machine     *)
(* starts in the state in which a mount without URL parameters has loaded  *)
(* a document of n entries, for n around the multiples of itemsPerPage up  *)
(* to MaxPages pages.                                                      *)
(***************************************************************************)
itemsPerPage == 50

MaxPages == 2

\* The entries of the long documents, in turn.
PagedKinds == <<CodedEntry, PlainEntry>>

PagedDocument(n) ==
    join([i \in 1..n |-> PagedKinds[1 + (i % Len(PagedKinds))]], BlankLine)

PageCounts == {0} \cup { k * itemsPerPage + 1 : k \in 1..MaxPages }

\* What the parser makes of each kind of entry, and the text stored for it.
PagedParsed == [k \in 1..Len(PagedKinds) |-> bibtexParse(PagedKinds[k]).entries[1]]
PagedTable == extractBibtexEntries(PagedDocument(Len(PagedKinds)))

\* The publications loaded from PagedDocument(n): the parse of a document of
\* closed entries is the sequence of the parses of its entries, and the text
\* stored for a key is that of its last entry.
PagedLoad(n) ==
    SortByYearDescending(
        MappedPublications([i \in 1..n |-> PagedParsed[1 + (i % Len(PagedKinds))]],
                           PagedTable))

\* Pages that begin one publication late.
LatePageOf(list, pageNo) ==
    SubSeq(list, (pageNo - 1) * itemsPerPage + 2,
           IF pageNo * itemsPerPage + 1 < Len(list) THEN pageNo * itemsPerPage + 1
           ELSE Len(list))

\* slice(start, end) of paginatedPublications for page number pageNo.
PageOf(list, pageNo) ==
    LET start == (pageNo - 1) * itemsPerPage
        end   == start + itemsPerPage
    IN  SubSeq(list, start + 1, IF end < Len(list) THEN end ELSE Len(list))

paginatedPublications == PageOf(filteredPublications, currentPage)

\* Math.ceil(length / itemsPerPage)
PagesFor(length) ==
    IF length % itemsPerPage = 0 THEN length \div itemsPerPage
    ELSE (length \div itemsPerPage) + 1

totalPages == PagesFor(Len(filteredPublications))

\* A list view without the watcher of filteredPublications.
UnwatchedPage(changed) == currentPage

\* watch.filteredPublications: the computed list is evaluated again when a
\* filter or the publications changed, and its value is then another array
\* than before, so the watcher runs and puts the page back to 1.
WatchFilteredPublications(changed) == IF changed THEN 1 ELSE currentPage

\* The values the filter controls of the page are given.
QueryChoices == { <<>>, Chars("caf") }
StartYearChoices == { Chars("2022") }
EndYearChoices == { Chars("2021") }
TypeChoices == { <<>>, Chars("article") }
FieldChoices == { "", "Automation" }
DataTypeChoices == { "", "Raw Images" }
SiteChoices == { "", "JHU" }

InitPages ==
    /\ \E n \in PageCounts :
         /\ doc = PagedDocument(n)
         /\ \E pubs \in PagedLoad(n) :
              /\ publications = pubs
              /\ \E years \in AvailableYears(pubs) :
                   IF Len(pubs) > 0 /\ Len(years) > 0
                   THEN startYear = years[Len(years)] /\ endYear = years[1]
                   ELSE startYear = <<>> /\ endYear = <<>>
    /\ bibtexEntries = Ran(PagedTable)
    /\ page = "list"
    /\ urlParams = NoParams
    /\ pc = "loaded"
    /\ searchQuery = <<>>
    /\ selectedType = <<>>
    /\ selectedField = ""
    /\ selectedDataType = ""
    /\ selectedSite = ""
    /\ currentPage = 1
    /\ download = NotRun
    /\ consoleErrors = 0
    /\ loading = TRUE
    /\ chartsScheduled = 0
    /\ NoCodes
    /\ text = <<>>
    /\ decoded = NotRun
    /\ redecoded = NotRun
    /\ analyticsDecoded = NotRun

\* The page controls: one of the pages 1..totalPages is chosen.
GoToPage ==
    /\ page = "list"
    /\ pc # "created"
    /\ \E p \in 1..totalPages : currentPage' = p
    /\ UNCHANGED <<decodeVars, codeVars, chartsScheduled, doc, urlParams, page, loading, pc, publications,
                   bibtexEntries, filterVars, download, consoleErrors>>

\* The filter controls: a value is given to one filter, and the watcher runs.
SetSearchQuery ==
    /\ page = "list"
    /\ pc # "created"
    /\ \E v \in QueryChoices :
         /\ searchQuery' = v
         /\ currentPage' = WatchFilteredPublications(v # searchQuery)
    /\ UNCHANGED <<startYear, endYear, selectedType, selectedField,
                   selectedDataType, selectedSite>>
    /\ UNCHANGED <<decodeVars, codeVars, chartsScheduled, doc, urlParams, page, loading, pc, publications,
                   bibtexEntries, download, consoleErrors>>

SetStartYear ==
    /\ page = "list"
    /\ pc # "created"
    /\ \E v \in StartYearChoices :
         /\ startYear' = v
         /\ currentPage' = WatchFilteredPublications(v # startYear)
    /\ UNCHANGED <<searchQuery, endYear, selectedType, selectedField,
                   selectedDataType, selectedSite>>
    /\ UNCHANGED <<decodeVars, codeVars, chartsScheduled, doc, urlParams, page, loading, pc, publications,
                   bibtexEntries, download, consoleErrors>>

SetEndYear ==
    /\ page = "list"
    /\ pc # "created"
    /\ \E v \in EndYearChoices :
         /\ endYear' = v
         /\ currentPage' = WatchFilteredPublications(v # endYear)
    /\ UNCHANGED <<searchQuery, startYear, selectedType, selectedField,
                   selectedDataType, selectedSite>>
    /\ UNCHANGED <<decodeVars, codeVars, chartsScheduled, doc, urlParams, page, loading, pc, publications,
                   bibtexEntries, download, consoleErrors>>

SetSelectedType ==
    /\ page = "list"
    /\ pc # "created"
    /\ \E v \in TypeChoices :
         /\ selectedType' = v
         /\ currentPage' = WatchFilteredPublications(v # selectedType)
    /\ UNCHANGED <<searchQuery, startYear, endYear, selectedField,
                   selectedDataType, selectedSite>>
    /\ UNCHANGED <<decodeVars, codeVars, chartsScheduled, doc, urlParams, page, loading, pc, publications,
                   bibtexEntries, download, consoleErrors>>

SetSelectedField ==
    /\ page = "list"
    /\ pc # "created"
    /\ \E v \in FieldChoices :
         /\ selectedField' = v
         /\ currentPage' = WatchFilteredPublications(v # selectedField)
    /\ UNCHANGED <<searchQuery, startYear, endYear, selectedType,
                   selectedDataType, selectedSite>>
    /\ UNCHANGED <<decodeVars, codeVars, chartsScheduled, doc, urlParams, page, loading, pc, publications,
                   bibtexEntries, download, consoleErrors>>

SetSelectedDataType ==
    /\ page = "list"
    /\ pc # "created"
    /\ \E v \in DataTypeChoices :
         /\ selectedDataType' = v
         /\ currentPage' = WatchFilteredPublications(v # selectedDataType)
    /\ UNCHANGED <<searchQuery, startYear, endYear, selectedType,
                   selectedField, selectedSite>>
    /\ UNCHANGED <<decodeVars, codeVars, chartsScheduled, doc, urlParams, page, loading, pc, publications,
                   bibtexEntries, download, consoleErrors>>

SetSelectedSite ==
    /\ page = "list"
    /\ pc # "created"
    /\ \E v \in SiteChoices :
         /\ selectedSite' = v
         /\ currentPage' = WatchFilteredPublications(v # selectedSite)
    /\ UNCHANGED <<searchQuery, startYear, endYear, selectedType,
                   selectedField, selectedDataType>>
    /\ UNCHANGED <<decodeVars, codeVars, chartsScheduled, doc, urlParams, page, loading, pc, publications,
                   bibtexEntries, download, consoleErrors>>

NextPages ==
    \/ GoToPage
    \/ SetSearchQuery
    \/ SetStartYear
    \/ SetEndYear
    \/ SetSelectedType
    \/ SetSelectedField
    \/ SetSelectedDataType
    \/ SetSelectedSite
    \/ ResetFilters

SpecPages == InitPages /\ [][NextPages]_vars

(***************************************************************************)
(* The list view with its filter controls, on the documents of             *)
(* RecordDocuments, mounted without URL parameters or with a year.         *)
(***************************************************************************)
InitFilters ==
    /\ doc \in RecordDocuments
    /\ page = "list"
    /\ urlParams \in { NoParams, OneParam("year", Chars("2019")) }
    /\ Created
    /\ NoCodes
    /\ text = <<>>
    /\ decoded = NotRun
    /\ redecoded = NotRun
    /\ analyticsDecoded = NotRun

NextFilters ==
    \/ Mounted
    \/ LoadPublications
    \/ LoadPublicationsFetchError
    \/ SetSearchQuery
    \/ SetStartYear
    \/ SetEndYear
    \/ SetSelectedType
    \/ SetSelectedField
    \/ SetSelectedDataType
    \/ SetSelectedSite
    \/ ResetFilters

SpecFilters == InitFilters /\ [][NextFilters]_vars

(***************************************************************************)
(* The analytics load statement by statement.  pc is the position in       *)
(* loadPublications: "fetching" (suspended at the fetch), "parsing" (the    *)
(* text has arrived), "assigned" (publications assigned), "shown" (loading *)
(* cleared), "catch" (in the catch block), "loaded" (returned).            *)
(***************************************************************************)
\* await fetch(...), await response.text(): the text arrives or the fetch
\* throws.
AnalyticsFetched ==
    /\ page = "analytics"
    /\ pc = "fetching"
    /\ pc' \in {"parsing", "catch"}
    /\ UNCHANGED <<decodeVars, codeVars, chartsScheduled, doc, urlParams, page, loading,
                   publications, bibtexEntries, filterVars, currentPage, download,
                   consoleErrors>>

\* bibtexParse.toJSON(...) and this.publications = parsed.filter().map().sort()
AnalyticsAssign ==
    /\ page = "analytics"
    /\ pc = "parsing"
    /\ IF AnalyticsLoads[doc].threw
       THEN pc' = "catch" /\ UNCHANGED publications
       ELSE pc' = "assigned" /\ publications' \in AnalyticsLoads[doc].results
    /\ UNCHANGED <<decodeVars, codeVars, chartsScheduled, doc, urlParams, page, loading,
                   bibtexEntries, filterVars, currentPage, download, consoleErrors>>

\* this.loading = false, in the try block
AnalyticsShow ==
    /\ page = "analytics"
    /\ pc = "assigned"
    /\ pc' = "shown"
    /\ loading' = FALSE
    /\ UNCHANGED <<decodeVars, codeVars, chartsScheduled, doc, urlParams, page, publications,
                   bibtexEntries, filterVars, currentPage, download, consoleErrors>>

\* this.$nextTick(() => { this.createCharts(); })
AnalyticsSchedule ==
    /\ page = "analytics"
    /\ pc = "shown"
    /\ pc' = "loaded"
    /\ chartsScheduled' = chartsScheduled + 1
    /\ UNCHANGED <<decodeVars, codeVars, doc, urlParams, page, loading, publications,
                   bibtexEntries, filterVars, currentPage, download, consoleErrors>>

\* A catch block that reports the error and leaves the loading flag.
ReportingCatch ==
    /\ page = "analytics"
    /\ pc = "catch"
    /\ pc' = "loaded"
    /\ consoleErrors' = consoleErrors + 1
    /\ UNCHANGED <<decodeVars, codeVars, chartsScheduled, doc, urlParams, page, loading,
                   publications, bibtexEntries, filterVars, currentPage, download>>

\* catch (error) { console.error(...); this.loading = false; }
AnalyticsCatch ==
    /\ page = "analytics"
    /\ pc = "catch"
    /\ pc' = "loaded"
    /\ consoleErrors' = consoleErrors + 1
    /\ loading' = FALSE
    /\ UNCHANGED <<decodeVars, codeVars, chartsScheduled, doc, urlParams, page, publications,
                   bibtexEntries, filterVars, currentPage, download>>

InitCharts ==
    /\ doc \in Documents
    /\ page = "analytics"
    /\ urlParams = NoParams
    /\ Created
    /\ NoCodes
    /\ text = <<>>
    /\ decoded = NotRun
    /\ redecoded = NotRun
    /\ analyticsDecoded = NotRun

NextCharts ==
    \/ AnalyticsMounted
    \/ AnalyticsFetched
    \/ AnalyticsAssign
    \/ AnalyticsShow
    \/ AnalyticsSchedule
    \/ AnalyticsCatch

SpecCharts == InitCharts /\ [][NextCharts]_vars

\* The fetch settles and each statement of the handler is followed by the
\* next: the steps after the mount are taken once they are enabled.
FairSpecCharts ==
    /\ SpecCharts
    /\ WF_vars(AnalyticsFetched)
    /\ WF_vars(AnalyticsAssign)
    /\ WF_vars(AnalyticsShow)
    /\ WF_vars(AnalyticsSchedule)
    /\ WF_vars(AnalyticsCatch)

(***************************************************************************)
(* Properties of the load, the extraction and the download                 *)
(***************************************************************************)
\* The entries of the document, each with its balanced span.
DocEntries == ListLoads[doc].parsed

\* Is n the last entry of the document with its citation key?
LastOfItsKey(n) ==
    \A m \in (n + 1)..Len(DocEntries) :
        DocEntries[m].citationKey # DocEntries[n].citationKey

\* Do the entries of the document carry distinct citation keys?
DistinctKeys == \A n \in 1..Len(DocEntries) : LastOfItsKey(n)

\* The balanced span of the entry that carries the key of a publication (the
\* last such entry when several carry it).
SourceSpan(p) ==
    DocEntries[CHOOSE n \in 1..Len(DocEntries) :
                  DocEntries[n].citationKey = p.id /\ LastOfItsKey(n)].verbatimText

\* C1: the text extractBibtexEntries stores under an entry's citation key is
\* the exact slice of the document from the entry's @ through the closing
\* brace that balances its opening brace.
C1_VerbatimIsBalancedSpan ==
    bibtexEntries.run =>
        \A n \in 1..Len(DocEntries) :
            LastOfItsKey(n) =>
                EntryTextOf(bibtexEntries.value, DocEntries[n].citationKey)
                    = DocEntries[n].verbatimText

\* C2: downloadBibtex writes the source spans of the filtered publications,
\* complete and unchanged, in filtered order, joined by one blank line.
C2_DownloadIsVerbatim ==
    [][DownloadBibtex =>
         download'.value.content =
             join([n \in 1..Len(filteredPublications) |->
                      SourceSpan(filteredPublications[n])], BlankLine)]_vars

\* What the round trip compares: citation key, entry type and fields.
KeyTypeFields(p) ==
    [f \in DOMAIN p \ {"bibtexText", "src", "showBibtex", "showAbstract"} |-> p[f]]

\* C3: the verbatim texts of all loaded entries, concatenated and loaded
\* again, give the same sequence of key, type and fields as the document
\* (stated for documents whose citation keys are distinct).
C3_RoundTrip ==
    (page = "list" /\ pc = "loaded" /\ bibtexEntries.run /\ DistinctKeys) =>
        LET again == join([n \in 1..Len(publications) |->
                              publications[n].bibtexText], BlankLine)
        IN  \E pubs \in LoadedPublications(again) :
                /\ Len(pubs) = Len(publications)
                /\ \A n \in 1..Len(pubs) :
                       KeyTypeFields(pubs[n]) = KeyTypeFields(publications[n])

\* The documents with an entry whose opening brace is never closed.
UnclosedDocuments == { d \in Documents : FirstUnclosed(d) # 0 }

\* C4: a document with an entry that is never closed makes the load fail: the
\* error is reported and no entry is in the result, not even the entries
\* that precede the unclosed one.
C4_MalformedLoadFails ==
    (pc = "loaded" /\ doc \in UnclosedDocuments) =>
        /\ publications = <<>>
        /\ ~bibtexEntries.run
        /\ consoleErrors > 0

\* Witness of C4: a load has ended on a document that opens with a complete
\* entry and goes on with an unclosed one.
C4_Witness ==
    /\ pc = "loaded"
    /\ consoleErrors > 0
    /\ doc = join(<<PlainEntry, OpenEntry>>, BlankLine)

\* C5 as stated: the loaded sequence is in document order.
C5_DocumentOrder ==
    \A i, j \in 1..Len(publications) :
        i < j => publications[i].src < publications[j].src

\* Year of the n-th loaded publication, as the comparators read it.
YearOf(n) == parseInt(publications[n].year)

\* C5, amended: when every retained year is a number, the load sorts by year,
\* newest first in the list view and oldest first in the analytics view, and
\* keeps the entries of one year in document order.
C5_SortedByYearThenDocumentOrder ==
    \A i, j \in 1..Len(publications) :
        (i < j /\ \A n \in 1..Len(publications) : ~YearOf(n).nan) =>
            \/ page = "list" /\ YearOf(i).val > YearOf(j).val
            \/ page = "analytics" /\ YearOf(i).val < YearOf(j).val
            \/ /\ YearOf(i).val = YearOf(j).val
               /\ publications[i].src < publications[j].src

\* Witness of C5: two loaded entries stand in the reverse of document order,
\* the later, newer one first.
C5_Witness ==
    /\ pc = "loaded"
    /\ Len(publications) = 2
    /\ publications[1].src > publications[2].src
    /\ YearOf(1).val > YearOf(2).val

(***************************************************************************)
(* Properties of the decoder                                               *)
(***************************************************************************)
\* The row of the table an umlaut escape on this letter is meant to reach.
UmlautKey(letter) == "\\\"" \o letter

\* C6: decoding is idempotent: a second application of convertLatexToUnicode
\* to an already decoded text returns that text unchanged.
C6_DecodingIdempotent ==
    redecoded.run => redecoded.value = decoded.value

\* C7: an accent escape on a letter that no row of the table carries (q), in
\* any of its written forms, is returned unchanged, character for character.
C7_UnknownEscapeUnchanged ==
    \A k \in 1..4, a \in Accents :
        (decoded.run /\ text = WrittenForm(k, a, "q")) => decoded.value = text

\* C8: an umlaut escape on a letter of the table, in each of its four written
\* forms, decodes to the diaeresis character of that letter, in the shared
\* decoder and in the analytics copy alike.
C8_UmlautDecoded ==
    \A k \in 1..4 :
        \A l \in { v \in FormLetters : UmlautKey(v) \in DOMAIN latexMap } :
            text = WrittenForm(k, "\"", l) =>
                /\ decoded.run => decoded.value = <<latexMap[UmlautKey(l)]>>
                /\ analyticsDecoded.run =>
                       analyticsDecoded.value = <<latexMap[UmlautKey(l)]>>

\* C9: each of the four written forms of the acute escape on e decodes to the
\* one character e-acute and to nothing else: in any context the result is
\* the one obtained with e-acute written in place of the form, so no brace of
\* the form stays behind and no character next to it is consumed.
C9_AcuteFormsDecodeAlike ==
    \A k \in 1..4, pre \in Contexts, suf \in Contexts :
        (decoded.run /\ text = pre \o WrittenForm(k, "'", "e") \o suf) =>
            decoded.value = convertLatexToUnicode(pre \o <<"U+00E9">> \o suf)

\* C10: the cedilla command on c decodes to c-cedilla both brace-wrapped and
\* space-separated; every other named command decodes to its character when
\* bare, and is still decoded when whitespace and a letter follow it.
C10_NamedCommandsDecoded ==
    decoded.run =>
        /\ text \in { BracedCommand("c", "c"), SpacedCommand("c", "c") } =>
               decoded.value = <<"U+00E7">>
        /\ \A c \in CommandNames \ {"c"} :
               /\ text = BareCommand(c) => decoded.value = <<latexMap[c]>>
               /\ \A l \in ArgLetters :
                      text = SpacedCommand(c, l) =>
                          /\ decoded.value # <<>>
                          /\ Head(decoded.value) = latexMap[c]

\* Are the braces of a text balanced: no prefix closes more than it opens,
\* and the whole text closes all it opens?
BalancedBraces(t) ==
    /\ \A k \in 1..Len(t) : DepthChange(t, 1, k) >= 0
    /\ DepthChange(t, 1, Len(t)) = 0

\* C11: a text without backslash whose braces are balanced decodes to itself
\* with every brace removed, whatever the nesting depth.
C11_BracesCollapsed ==
    (decoded.run /\ "\\" \notin { text[k] : k \in 1..Len(text) }
                 /\ BalancedBraces(text)) =>
        decoded.value = RemoveAllBraces(text)

(***************************************************************************)
(* Properties of the code lists                                            *)
(***************************************************************************)
\* The codes a value was written with: the non-empty ones, in order.
WrittenCodes ==
    SelectSeq([n \in 1..Len(codePieces) |-> codePieces[n].code],
              LAMBDA c : c # "")

Resolved(map, code) == IF code \in DOMAIN map THEN map[code] ELSE code

\* C13: resolving the codes keeps their number and order; a code that is a
\* key of the table gives its display name and any other code passes through
\* as the raw code.
C13_CodesResolved ==
    /\ parsedFields.run =>
          /\ Len(parsedFields.value) = Len(WrittenCodes)
          /\ \A n \in 1..Len(WrittenCodes) :
                 parsedFields.value[n] = Resolved(FIELD_MAP, WrittenCodes[n])
    /\ parsedDataTypes.run =>
          /\ Len(parsedDataTypes.value) = Len(WrittenCodes)
          /\ \A n \in 1..Len(WrittenCodes) :
                 parsedDataTypes.value[n] = Resolved(DATA_TYPE_MAP, WrittenCodes[n])
    /\ parsedSites.run =>
          /\ Len(parsedSites.value) = Len(WrittenCodes)
          /\ \A n \in 1..Len(WrittenCodes) :
                 parsedSites.value[n].name = Resolved(SITE_MAP, WrittenCodes[n])

\* The same resolution, for the codes that name no member of Object.prototype.
OrdinaryCodesResolved ==
    (\A n \in 1..Len(WrittenCodes) : WrittenCodes[n] \notin ObjectPrototypeKeys)
        => C13_CodesResolved

(***************************************************************************)
(* Properties of the loaded records                                        *)
(***************************************************************************)
\* The tags of the parsed entry a publication was built from.
TagsOf(pub) == DocEntries[pub.src].entryTags

ListLoaded == page = "list" /\ pc = "loaded" /\ bibtexEntries.run

\* C14: an entry with the plural field dvrk_sites and no dvrk_site is loaded
\* with the value of dvrk_sites under dvrk_site.
C14_LegacySiteExposed ==
    ListLoaded =>
        \A n \in 1..Len(publications) :
            LET tags == TagsOf(publications[n]) IN
            ("dvrk_sites" \in DOMAIN tags /\ "dvrk_site" \notin DOMAIN tags)
                => publications[n].dvrk_site = tags["dvrk_sites"]

Braces == {"{", "}"}
HasBrace(t) == \E k \in 1..Len(t) : t[k] \in Braces

\* C15: in every view, no code list stored by the load contains a brace.
C15_CodeListsWithoutBraces ==
    /\ ListLoaded =>
          \A n \in 1..Len(publications) :
              /\ ~HasBrace(publications[n].research_field)
              /\ ~HasBrace(publications[n].data_type)
              /\ ~HasBrace(publications[n].dvrk_site)
    /\ (page = "analytics" /\ pc = "loaded") =>
          \A n \in 1..Len(publications) :
              /\ ~HasBrace(publications[n].research_field)
              /\ ~HasBrace(publications[n].data_type)

\* The list view alone stores no brace in a code list.
ListCodeListsWithoutBraces ==
    ListLoaded =>
        \A n \in 1..Len(publications) :
            /\ publications[n].research_field = RemoveAllBraces(Tag(TagsOf(publications[n]), "research_field"))
            /\ ~HasBrace(publications[n].research_field)
            /\ ~HasBrace(publications[n].data_type)
            /\ ~HasBrace(publications[n].dvrk_site)

\* Is the m-th parsed entry among the publications?
Kept(m) == \E n \in 1..Len(publications) : publications[n].src = m

\* Does the m-th parsed entry carry a non-empty field of this name?
Carries(m, name) ==
    /\ name \in DOMAIN DocEntries[m].entryTags
    /\ DocEntries[m].entryTags[name] # <<>>

\* C16 as stated: no publication lacks a citation key or a type, and every
\* entry that has both is kept, whatever its fields.
C16_KeptIfKeyAndType ==
    ListLoaded =>
        /\ \A n \in 1..Len(publications) :
               publications[n].id # <<>> /\ publications[n].type # <<>>
        /\ \A m \in 1..Len(DocEntries) : Kept(m)

\* C16, amended: no publication lacks a citation key or a type, the load of
\* a document with such an entry succeeds, and an entry that has both is kept
\* exactly when it has a title and a year.
C16_KeptIffTitleAndYear ==
    ListLoaded =>
        /\ consoleErrors = 0
        /\ \A n \in 1..Len(publications) :
               publications[n].id # <<>> /\ publications[n].type # <<>>
        /\ \A m \in 1..Len(DocEntries) :
               Kept(m) <=> (Carries(m, "title") /\ Carries(m, "year"))

\* Witness of C16: a document with an entry without citation key and an entry
\* without title has been loaded: neither is listed.
C16_Witness ==
    /\ ListLoaded
    /\ IndexOf(doc, KeylessEntry, 1) # 0
    /\ IndexOf(doc, UntitledEntry, 1) # 0
    /\ Len(DocEntries) = 1
    /\ publications = <<>>

\* C17: entries that share a citation key are all loaded: every entry with a
\* title and a year has one publication of its own, with the entry's key,
\* type, year and title.
C17_SameKeyEntriesLoaded ==
    ListLoaded =>
        \A m \in 1..Len(DocEntries) :
            (Carries(m, "title") /\ Carries(m, "year")) =>
                \E n \in 1..Len(publications) :
                    /\ publications[n].src = m
                    /\ publications[n].id = DocEntries[m].citationKey
                    /\ publications[n].type = DocEntries[m].entryType
                    /\ publications[n].year = DocEntries[m].entryTags["year"]
                    /\ publications[n].title =
                           convertLatexToUnicode(DocEntries[m].entryTags["title"])
                    /\ \A k \in 1..Len(publications) :
                           publications[k].src = m => k = n

\* Witness of C17: two entries with one citation key and different types
\* have been loaded as two publications.
C17_Witness ==
    /\ ListLoaded
    /\ Len(publications) = 2
    /\ publications[1].id = publications[2].id
    /\ publications[1].type # publications[2].type
    /\ publications[1].title # publications[2].title

\* Has the document no entry that can be listed: is it empty, or without a
\* valid entry, or are its valid entries without title or year?
NothingToList ==
    /\ doc \notin UnclosedDocuments
    /\ \A m \in 1..Len(DocEntries) : ~(Carries(m, "title") /\ Carries(m, "year"))

\* C18: the load of an empty document, or of a document without a valid
\* entry, leaves publications empty, reports no error and gives the year
\* range no default: the bounds stay as they were, unset unless the URL set
\* them.
C18_EmptyLoadIsQuiet ==
    [][(LoadPublications /\ NothingToList) =>
          /\ publications' = <<>>
          /\ bibtexEntries'.run
          /\ consoleErrors' = consoleErrors
          /\ startYear' = startYear
          /\ endYear' = endYear
          /\ urlParams.has = {} => (startYear' = <<>> /\ endYear' = <<>>)]_vars

\* Witness of C18: a document that is not empty and has no valid entry has
\* been loaded.
C18_Witness ==
    /\ ListLoaded
    /\ doc = KeylessEntry
    /\ publications = <<>>
    /\ consoleErrors = 0
    /\ startYear = <<>>
    /\ endYear = <<>>

\* C19 as stated: once the publications are loaded, no operation changes
\* them.
C19_EntriesImmutable ==
    [][pc = "loaded" => publications' = publications]_vars

\* After the load, the publications change only by toggleBibtex and
\* toggleAbstract, and only in showBibtex and showAbstract.
OnlyTogglesMutate ==
    [][(pc = "loaded" /\ publications' # publications) =>
          /\ ToggleBibtex \/ ToggleAbstract
          /\ Len(publications') = Len(publications)
          /\ \A n \in 1..Len(publications) :
                 [publications'[n] EXCEPT !.showBibtex = FALSE, !.showAbstract = FALSE]
                   = [publications[n] EXCEPT !.showBibtex = FALSE, !.showAbstract = FALSE]]_vars

CopiedFields ==
    {"year", "volume", "number", "pages", "doi", "url", "ieeexplore",
     "semanticscholar", "arxiv", "openaccesspdf"}

\* C20: year, volume, number, pages, doi, url, ieeexplore, semanticscholar,
\* arxiv and openaccesspdf of a publication are the values of the parsed
\* entry, unchanged, and the empty string for a field the entry lacks.
C20_FieldsCopied ==
    ListLoaded =>
        \A n \in 1..Len(publications) : \A f \in CopiedFields :
            publications[n][f] =
                IF f \in DOMAIN TagsOf(publications[n])
                THEN TagsOf(publications[n])[f] ELSE <<>>

\* Witness of C20: an entry with all ten fields, one of them with an escape,
\* and an entry with the year alone have been loaded.
C20_Witness ==
    /\ ListLoaded
    /\ \E n \in 1..Len(publications) :
           /\ CopiedFields \subseteq DOMAIN TagsOf(publications[n])
           /\ publications[n].doi = Chars("10.1/{\\'e}x")
           /\ publications[n].pages = Chars("1--10")
    /\ \E n \in 1..Len(publications) :
           /\ CopiedFields \cap DOMAIN TagsOf(publications[n]) = {"year"}
           /\ publications[n].volume = <<>>

(***************************************************************************)
(* Properties of a repeated load                                           *)
(***************************************************************************)
\* The default of a year bound after a load that assigned pubs: the bound as
\* it was when it was set, else the year at this place from the end of the
\* available years.
BoundAfterLoad(bound, pubs, fromEnd) ==
    IF bound # <<>> \/ pubs = <<>> THEN {bound}
    ELSE { years[IF fromEnd THEN Len(years) ELSE 1] : years \in AvailableYears(pubs) }

\* The publications a load of the document assigns in the created state.
FreshLoad == ListLoads[doc].results

\* C21 as stated: the publications a load assigns are those of a load of the
\* same text from the created state, whatever the state the load starts in,
\* and the load changes no state that a later load reads: the filters are
\* left as they were.
C21_LoadIsPure ==
    [][LoadPublications =>
          /\ \A pubs \in FreshLoad : publications' = pubs
          /\ UNCHANGED filterVars]_vars

\* C21, amended: the publications a load assigns are those of a load of the
\* same text from the created state, whatever the earlier publications, their
\* flags, the filters and the page; of the other state the load reads the two
\* year bounds and writes the default to a bound that is empty, and it puts
\* the page back to 1.
C21_PublicationsDependOnTextOnly ==
    [][LoadPublications =>
          /\ \A pubs \in FreshLoad : publications' = pubs
          /\ startYear' \in BoundAfterLoad(startYear, publications', TRUE)
          /\ endYear' \in BoundAfterLoad(endYear, publications', FALSE)
          /\ currentPage' = 1
          /\ UNCHANGED <<searchQuery, selectedType, selectedField,
                         selectedDataType, selectedSite, download>>]_vars

\* Witness of C21: a load has failed at its fetch and another load, before
\* or after it, has assigned two publications; the year bounds are in place.
C21_Witness ==
    /\ ListLoaded
    /\ consoleErrors = 1
    /\ Len(publications) = 2
    /\ startYear # <<>>
    /\ \A n \in 1..Len(publications) :
           ~publications[n].showBibtex /\ ~publications[n].showAbstract

(***************************************************************************)
(* Properties of the stored source texts                                   *)
(***************************************************************************)
\* C22: the bibtexText of a loaded publication is empty or the source text
\* of the last entry of the document that carries the publication's id.
C22_TextOfLastEntryOfKey ==
    ListLoaded =>
        \A n \in 1..Len(publications) :
            \/ publications[n].bibtexText = <<>>
            \/ publications[n].bibtexText = SourceSpan(publications[n])

\* The same for the documents whose entries extractBibtexEntries stores
\* whole.
TextOfLastEntryWhereStoredWhole ==
    (ListLoaded /\ C1_VerbatimIsBalancedSpan) => C22_TextOfLastEntryOfKey

\* Two entries of one key have been loaded and both show the text of the
\* second.
SharedKeyShowsLastText ==
    /\ ListLoaded
    /\ Len(publications) = 2
    /\ publications[1].id = publications[2].id
    /\ publications[1].bibtexText = publications[2].bibtexText
    /\ publications[1].bibtexText = SameKeyEntry

(***************************************************************************)
(* Properties of the year bounds                                           *)
(***************************************************************************)
\* The year the URL gives for a bound: its own parameter, else the parameter
\* year, else nothing.
UrlYear(name) ==
    IF name \in urlParams.has THEN urlParams.get[name]
    ELSE IF "year" \in urlParams.has THEN urlParams.get["year"]
    ELSE <<>>

BothClosed(pub) == ~pub.showBibtex /\ ~pub.showAbstract

\* At most one panel of each publication is open, and a toggle of a closed
\* panel opens it and closes the other.
PanelsExclusive ==
    \A n \in 1..Len(publications) :
        LET pub == publications[n] IN
        /\ ~(pub.showBibtex /\ pub.showAbstract)
        /\ ~pub.showBibtex =>
              (toggleBibtex(pub).showBibtex /\ ~toggleBibtex(pub).showAbstract)
        /\ ~pub.showAbstract =>
              (toggleAbstract(pub).showAbstract /\ ~toggleAbstract(pub).showBibtex)

\* C24 as stated: at most one panel of each publication is open, opening one
\* closes the other, and two toggles of one panel in a row leave both panels
\* closed.
C24_TwoTogglesClose ==
    page = "list" =>
        /\ PanelsExclusive
        /\ \A n \in 1..Len(publications) :
               /\ BothClosed(toggleBibtex(toggleBibtex(publications[n])))
               /\ BothClosed(toggleAbstract(toggleAbstract(publications[n])))

\* C24, amended: at most one panel of each publication is open, opening one
\* closes the other, two toggles in a row of a panel that is closed leave both
\* panels closed, and two toggles in a row of a panel that is open leave the
\* publication as it is.
C24_TwoTogglesOfClosedPanelClose ==
    page = "list" =>
        /\ PanelsExclusive
        /\ \A n \in 1..Len(publications) :
               LET pub == publications[n] IN
               /\ ~pub.showBibtex => BothClosed(toggleBibtex(toggleBibtex(pub)))
               /\ ~pub.showAbstract => BothClosed(toggleAbstract(toggleAbstract(pub)))
               /\ pub.showBibtex => toggleBibtex(toggleBibtex(pub)) = pub
               /\ pub.showAbstract => toggleAbstract(toggleAbstract(pub)) = pub

\* Witness of C24: one publication shows its source text and another its
\* abstract.
C24_Witness ==
    /\ page = "list"
    /\ \E n \in 1..Len(publications) :
           publications[n].showBibtex /\ ~publications[n].showAbstract
    /\ \E n \in 1..Len(publications) :
           publications[n].showAbstract /\ ~publications[n].showBibtex

(***************************************************************************)
(* Properties of the pages                                                 *)
(***************************************************************************)
\* C25: a step that changes the filtered list puts the page back to 1 (a
\* step after which another page than the first is shown has left the
\* filtered list as it was), and the page shown never starts beyond the end
\* of a filtered list that has publications (the first page never does).
C25_PageResetOnChange ==
    [][currentPage' # 1 =>
         LET shown == Filtered(publications', searchQuery', startYear', endYear',
                               selectedType', selectedField', selectedDataType',
                               selectedSite')
         IN  /\ shown = filteredPublications
             /\ shown # <<>> => (currentPage' - 1) * itemsPerPage < Len(shown)]_vars

\* Witness of C25: the first page is shown of a list that a filter has made
\* shorter than the loaded one, and the loaded list has a second page.
C25_Witness ==
    /\ page = "list" /\ pc = "loaded"
    /\ currentPage = 1
    /\ searchQuery # <<>>
    /\ filteredPublications # <<>>
    /\ Len(filteredPublications) < Len(publications)
    /\ Len(publications) > itemsPerPage

\* paginatedPublications for each page number from first to last, joined.
RECURSIVE PagesJoined(_, _, _)
PagesJoined(list, first, last) ==
    IF first > last THEN <<>>
    ELSE PageOf(list, first) \o PagesJoined(list, first + 1, last)

\* C26: the pages 1..totalPages joined are the filtered list, every page has
\* between 1 and itemsPerPage publications, and totalPages is the filtered
\* count divided by itemsPerPage and rounded up (0 for an empty list).
C26_PagesPartition ==
    (page = "list" /\ pc = "loaded") =>
        LET count == Len(filteredPublications) IN
        /\ PagesJoined(filteredPublications, 1, totalPages) = filteredPublications
        /\ \A p \in 1..totalPages :
               /\ Len(PageOf(filteredPublications, p)) >= 1
               /\ Len(PageOf(filteredPublications, p)) <= itemsPerPage
        /\ totalPages * itemsPerPage >= count
        /\ count = 0 => totalPages = 0
        /\ count > 0 => (totalPages - 1) * itemsPerPage < count

\* Witness of C26: a filtered list of three pages whose last page is not
\* full is shown at its last page; and a list of one full page.
C26_Witness ==
    /\ page = "list" /\ pc = "loaded"
    /\ totalPages = 3
    /\ currentPage = 3
    /\ Len(paginatedPublications) = 1

FullPageShown ==
    /\ page = "list" /\ pc = "loaded"
    /\ totalPages = 1
    /\ Len(paginatedPublications) = itemsPerPage

(***************************************************************************)
(* Properties of the default filters                                       *)
(***************************************************************************)
IntegerYear(year) == year # <<>> /\ \A n \in 1..Len(year) : year[n] \in Digits
IntegerYears(pubs) == \A n \in 1..Len(pubs) : IntegerYear(pubs[n].year)

\* The filters are unset and the page is the first.
Unfiltered(query, type, field, dataType, site, pageNo) ==
    /\ query = <<>>
    /\ type = <<>>
    /\ field = ""
    /\ dataType = ""
    /\ site = ""
    /\ pageNo = 1

\* bound is a year of pubs and no year of pubs is beyond it (direction = 1:
\* none is smaller, -1: none is larger); empty when there is no publication.
ExtremeYear(bound, pubs, direction) ==
    IF pubs = <<>> THEN bound = <<>>
    ELSE /\ \E n \in 1..Len(pubs) : pubs[n].year = bound
         /\ \A n \in 1..Len(pubs) :
                direction * parseInt(pubs[n].year).val >= direction * parseInt(bound).val

LoadedWithDefaults ==
    /\ page = "list" /\ pc = "loaded" /\ bibtexEntries.run
    /\ urlParams = NoParams
    /\ Len(publications) = 2
    /\ parseInt(startYear).val < parseInt(endYear).val
    /\ filteredPublications = publications

(***************************************************************************)
(* Properties of the analytics load                                        *)
(***************************************************************************)
\* C28: once the analytics view is mounted the loading flag is eventually
\* cleared, whether the load succeeds or throws; createCharts is scheduled
\* only when the load has not failed, after the publications were assigned
\* and the flag was cleared, and at most once.
C28_LoadingEndsChartsOnSuccess ==
    /\ (page = "analytics" /\ pc # "created") ~> ~loading
    /\ [][chartsScheduled' # chartsScheduled =>
             /\ chartsScheduled = 0 /\ chartsScheduled' = 1
             /\ consoleErrors = 0 /\ pc # "catch"
             /\ ~AnalyticsLoads[doc].threw
             /\ publications \in AnalyticsLoads[doc].results
             /\ ~loading]_vars
    /\ [](chartsScheduled > 0 => consoleErrors = 0 /\ ~loading)

\* Witness of C28: a load that succeeded, with its charts scheduled.
C28_Witness ==
    /\ page = "analytics" /\ pc = "loaded"
    /\ ~loading
    /\ chartsScheduled = 1
    /\ Len(publications) = 2

\* A load that threw has cleared the flag and scheduled nothing.
FailedLoadEnds ==
    /\ page = "analytics" /\ pc = "loaded"
    /\ ~loading
    /\ consoleErrors = 1
    /\ chartsScheduled = 0

(***************************************************************************)
(* Properties of the download                                              *)
(***************************************************************************)
\* The source texts downloadBibtex writes for a list of publications.
WrittenTexts(pubs) ==
    SelectSeq([n \in 1..Len(pubs) |-> pubs[n].bibtexText], LAMBDA t : t # <<>>)

\* C29: the number in the name of the downloaded file is the number of
\* entries written into the file.
C29_NameCountsWritten ==
    [][DownloadBibtex =>
          download'.value.count = Len(WrittenTexts(filteredPublications))]_vars

\* The same for the documents whose entries are all stored whole.
NameCountsWrittenWhereStoredWhole ==
    [][(DownloadBibtex /\ C1_VerbatimIsBalancedSpan) =>
          download'.value.count = Len(WrittenTexts(filteredPublications))]_vars

(***************************************************************************)
(* Properties of the copies of the decoder                                 *)
(***************************************************************************)
\* The analytics copy returns what the shared decoder returns.
AnalyticsCopyAgrees ==
    (decoded.run /\ analyticsDecoded.run) => analyticsDecoded.value = decoded.value

\* The list view's copy returns what the shared decoder returns.
ListCopyAgrees ==
    decoded.run => listConvertLatexToUnicode(text) = decoded.value

\* Decoding after the removal of every brace gives what decoding gives.
BraceRemovalFirstAgrees ==
    decoded.run => convertLatexToUnicode(RemoveAllBraces(text)) = decoded.value

\* C30: on every input the shared decoder, the list view's copy and the
\* analytics copy return the same text, and a text decoded after all its
\* braces were removed equals the text decoded directly.
C30_CopiesAgree ==
    /\ AnalyticsCopyAgrees
    /\ ListCopyAgrees
    /\ BraceRemovalFirstAgrees

====
